---- MODULE Spec2Model ----
(***************************************************************************)
(* AILLE framework: the decision-fusion engine (AILLEEngine) and the       *)
(* hash-chained audit ledger (AuditLogger).                                *)
(*                                                                         *)
(* Numbers.  The C++ code works on IEEE floats.  Here a float is a         *)
(* fixed-point integer in thousandths (0.35 is 350), or the value NaN.     *)
(* Comparisons with NaN are false and arithmetic on NaN gives NaN, as in   *)
(* IEEE.  Divisions round to the nearest thousandth.                       *)
(***************************************************************************)
EXTENDS Integers, Sequences, FiniteSets, TLC

\* ------------------------------------------------------------------------
\* Bounds of the model
\* ------------------------------------------------------------------------
MaxBatch == 2
MaxWindow == 2
MaxLog == 2
\* slots of the collector's sample buffer
MaxSamples == 2
\* observeDecision calls followed since the collector was constructed or reset
MaxObserve == 3
\* well-formed Decisions followed when the sample buffer is filled and overwritten
MaxFill == MaxSamples + 2
\* longest buffer followed when the window is negative (nothing is evicted)
MaxBuffer == MaxWindow + 1
\* longest history of accepted values followed
MaxAccepted == MaxWindow + 1

\* ------------------------------------------------------------------------
\* Float layer
\* ------------------------------------------------------------------------
NaN == 1000000

FGe(a, b) == a # NaN /\ b # NaN /\ a >= b

FLt(a, b) == a # NaN /\ b # NaN /\ a < b

FAdd(a, b) == IF a = NaN \/ b = NaN THEN NaN ELSE a + b

Abs(x) == IF x < 0 THEN -x ELSE x

Min(a, b) == IF a <= b THEN a ELSE b

\* a / n for an integer count n, rounded to the nearest unit (0/0 is NaN).
\* A float quotient of a nonzero value by a small count is never zero, so a
\* nonzero a keeps its sign: the quotient is at least one unit in size.
RoundDiv(a, n) ==
    IF a = NaN \/ n = 0 THEN NaN
    ELSE LET q == (2 * Abs(a) + n) \div (2 * n)
             size == IF a # 0 /\ q = 0 THEN 1 ELSE q
         IN  IF a >= 0 THEN size ELSE -size

FDivCount(a, n) == RoundDiv(a, n)

\* c * 0.8f
GracePenalty(c) == IF c = NaN THEN NaN ELSE RoundDiv(c * 4, 5)

\* (x >= 0) ? 1.0f : -1.0f
SignOf(x) == IF FGe(x, 0) THEN 1 ELSE -1

\* 1000 * tanh(m / 10) for m = 0 .. 41, rounded; 1000 beyond (float tanh
\* saturates to exactly 1.0f for large arguments)
TanhTable ==
    << 0, 100, 197, 291, 380, 462, 537, 604, 664, 716, 762, 800, 834, 862,
       885, 905, 922, 935, 947, 956, 964, 970, 976, 980, 984, 987, 989, 991,
       993, 994, 995, 996, 997, 997, 998, 998, 999, 999, 999, 999, 999, 999 >>

TanhScale == 100

\* std::tanh of an argument given in tenths; tanh is odd
Tanh(tenths) ==
    IF tenths = NaN THEN NaN
    ELSE LET m == Abs(tenths)
             t == IF m + 1 <= Len(TanhTable) THEN TanhTable[m + 1] ELSE 1000
         IN  IF tenths >= 0 THEN t ELSE -t

\* variant: the scale factor is left out, tanh(signal)
smoothPosition_Unscaled(signal) ==
    IF signal = NaN THEN NaN ELSE Tanh(RoundDiv(signal, 100))

\* std::tanh(signal * scale): signal in thousandths, so the argument of
\* tanh is signal * scale / 1000, tabulated in tenths
smoothPosition(signal) ==
    IF signal = NaN THEN NaN ELSE Tanh(RoundDiv(signal * TanhScale, 100))

RECURSIVE SumSeq(_)
SumSeq(s) == IF s = <<>> THEN 0 ELSE FAdd(SumSeq(SubSeq(s, 1, Len(s) - 1)), s[Len(s)])

\* the subsequence of s whose elements satisfy Test, in order
RECURSIVE SelectIdx(_, _, _)
SelectIdx(s, keep, i) ==
    IF i > Len(s) THEN <<>>
    ELSE (IF keep[i] THEN <<s[i]>> ELSE <<>>) \o SelectIdx(s, keep, i + 1)

\* ------------------------------------------------------------------------
\* std::sort on a short vector of floats (libstdc++: insertion sort with
\* operator<, below 16 elements).  With NaN present operator< is not a
\* strict weak order; the result is then what the insertion sort leaves.
\* ------------------------------------------------------------------------
RECURSIVE LinearInsert(_, _)
LinearInsert(s, val) ==
    IF s = <<>> THEN <<val>>
    ELSE IF FLt(val, s[Len(s)])
         THEN Append(LinearInsert(SubSeq(s, 1, Len(s) - 1), val), s[Len(s)])
         ELSE Append(s, val)

RECURSIVE StdSort(_)
StdSort(s) ==
    IF Len(s) <= 1 THEN s
    ELSE LET pre == StdSort(SubSeq(s, 1, Len(s) - 1))
             val == s[Len(s)]
         IN  IF FLt(val, pre[1]) THEN <<val>> \o pre ELSE LinearInsert(pre, val)

\* ------------------------------------------------------------------------
\* Data structures
\* ------------------------------------------------------------------------
DecisionStatus ==
    { "DECISION_VALID", "REJECTED_LOW_CONFIDENCE", "REJECTED_NO_CONSENSUS",
      "FALLBACK_ACTIVATED", "ERROR_NO_MODELS" }

\* ModelSignal(v, c, id): the constructor stamps the signal with the clock,
\* which reads 1 while the batches are built
ModelSignal(v, c, id) ==
    [value |-> v, confidence |-> c, timestamp_ns |-> 1, model_id |-> id]

\* variant: the constructor leaves models_agreed unset
DefaultDecision_Unset ==
    [ final_value |-> 0, status |-> "ERROR_NO_MODELS", confidence |-> 0,
      models_agreed |-> -1, fallback_used |-> FALSE, timestamp_ns |-> 0,
      contributing_models |-> <<>>, reasoning |-> "" ]

\* Decision(): the default-constructed Decision
DefaultDecision ==
    [ final_value |-> 0, status |-> "ERROR_NO_MODELS", confidence |-> 0,
      models_agreed |-> 0, fallback_used |-> FALSE, timestamp_ns |-> 0,
      contributing_models |-> <<>>, reasoning |-> "" ]

\* AILLEConfig(), with the window of 50 replaced by the model's MaxWindow
DefaultConfig ==
    [ min_confidence_threshold |-> 350,
      grace_confidence_threshold |-> 250,
      min_models_required |-> 2,
      sign_agreement_threshold |-> 660,
      fallback_window_size |-> MaxWindow,
      fallback_position_scale |-> 100,
      max_model_count |-> 10 ]

\* the configurations a caller hands to the constructor or to setConfig;
\* neither validates, so windows and counts <= 0 and grace > min are included
Configs ==
    { [DefaultConfig EXCEPT !.fallback_window_size = w] : w \in -1 .. MaxWindow }
    \cup { [DefaultConfig EXCEPT !.min_models_required = m] : m \in {0, 1, 3} }
    \cup { [DefaultConfig EXCEPT !.min_confidence_threshold = 250,
                                 !.grace_confidence_threshold = 350],
           [DefaultConfig EXCEPT !.sign_agreement_threshold = 1000] }

VARIABLES
    config,            \* AILLEEngine::config
    fallback_buffer,   \* AILLEEngine::fallback_buffer
    decision,          \* the Decision the last makeDecision returned
    fault,             \* TRUE once a call read out of bounds (undefined behaviour)
    audit_trail,       \* AuditLogger::audit_trail
    next_decision_id,  \* AuditLogger::next_decision_id
    last_hash,         \* AuditLogger::last_hash
    log_open,          \* AuditLogger::log_file.is_open()
    log_fail,          \* AuditLogger::log_file.fail(): the stream's error state
    file_rows,         \* the decision ids of the rows that reached the backing file
    returned,          \* what the last AuditLogger call returned to its caller
    accepted,          \* history: final_value of each Valid decision since the last reset
    log_calls,         \* history: number of logDecision calls
    tampered,          \* history: a stored record was altered behind the logger's back
    call,              \* history: the last engine call, its inputs and what it computed
    twin,              \* a second engine, fed the batches the first one is fed
    threads,           \* the threads calling makeDecision on the shared engine
    report,            \* the last two reports generateReport wrote from the present trail, the latest first
    metrics,           \* the MetricsCollector
    observed           \* history: the Decisions passed to observeDecision since the last reset

engine_vars == << config, fallback_buffer, decision, fault >>

audit_vars == << audit_trail, next_decision_id, last_hash, log_open, log_fail,
                 file_rows, returned >>

history_vars == << accepted, log_calls, tampered >>

aux_vars == << call, twin, threads >>

ext_vars == << report, metrics, observed >>

vars == << config, fallback_buffer, decision, fault,
           audit_trail, next_decision_id, last_hash, log_open, log_fail,
           file_rows, returned, accepted, log_calls, tampered,
           call, twin, threads, report, metrics, observed >>

\* ------------------------------------------------------------------------
\* AILLEEngine
\* ------------------------------------------------------------------------
\* variant: the newest stored value stands in for the mean
calculateFallbackValue_Newest(buf) ==
    IF buf = <<>> THEN 0 ELSE buf[Len(buf)]

\* the mean of the stored values, 0 for an empty buffer
calculateFallbackValue(buf) ==
    IF buf = <<>> THEN 0 ELSE FDivCount(SumSeq(buf), Len(buf))

\* variant: the newest values are evicted instead of the oldest (pop_back)
updateFallbackBuffer_PopBack(buf, cfg, value) ==
    LET pushed == Append(buf, value)
        w == cfg.fallback_window_size
    IN  IF w < 0 \/ Len(pushed) <= w THEN pushed ELSE SubSeq(pushed, 1, w)

\* variant: the value is inserted at the front (push_front)
updateFallbackBuffer_PushFront(buf, cfg, value) ==
    LET pushed == <<value>> \o buf
        w == cfg.fallback_window_size
    IN  IF w < 0 \/ Len(pushed) <= w THEN pushed
        ELSE SubSeq(pushed, Len(pushed) - w + 1, Len(pushed))

\* push_back, then pop_front while size() > size_t(window); a negative
\* window converts to a huge size_t and nothing is popped
updateFallbackBuffer(buf, cfg, value) ==
    LET pushed == Append(buf, value)
        w == cfg.fallback_window_size
    IN  IF w < 0 \/ Len(pushed) <= w THEN pushed
        ELSE SubSeq(pushed, Len(pushed) - w + 1, Len(pushed))

\* variant: signals in the grace range keep their confidence
applySafetyLayer_NoPenalty(signals, cfg) ==
    LET keep == [ i \in 1 .. Len(signals) |->
                    \/ FGe(signals[i].confidence, cfg.min_confidence_threshold)
                    \/ FGe(signals[i].confidence, cfg.grace_confidence_threshold) ]
    IN  SelectIdx(signals, keep, 1)

\* variant: signals below the grace threshold are penalised, not dropped
applySafetyLayer_NoDrop(signals, cfg) ==
    LET pass(i) == FGe(signals[i].confidence, cfg.min_confidence_threshold)
    IN  [ i \in 1 .. Len(signals) |->
            IF pass(i) THEN signals[i]
            ELSE [signals[i] EXCEPT !.confidence = GracePenalty(@)] ]

applySafetyLayer(signals, cfg) ==
    LET pass(i) == FGe(signals[i].confidence, cfg.min_confidence_threshold)
        grace(i) == FGe(signals[i].confidence, cfg.grace_confidence_threshold)
        out == [ i \in 1 .. Len(signals) |->
                   IF pass(i) THEN signals[i]
                   ELSE [signals[i] EXCEPT !.confidence = GracePenalty(@)] ]
        keep == [ i \in 1 .. Len(signals) |-> pass(i) \/ grace(i) ]
    IN  SelectIdx(out, keep, 1)

\* variant: the empty validated set is not intercepted
validEmpty_Never(valid) == FALSE

\* if (valid.empty()) in makeDecision
validEmpty(valid) == valid = <<>>

\* variant: a validated set of exactly min_models_required signals is refused
countCheckFails_Le(n, mmr) == mmr < 0 \/ n <= mmr

\* valid_signals.size() < static_cast<size_t>(config.min_models_required):
\* a negative count converts to a huge size_t
countCheckFails(n, mmr) == mmr < 0 \/ n < mmr

\* variant: the lower-middle element for an even count
medianIndex_Lower(n) == (n - 1) \div 2

\* sorted.size() / 2, the 0-based index of the median
medianIndex(n) == n \div 2

\* variant: the count of agreeing signals is not compared with the minimum
agreementEnough_Always(agreement_count, mmr) == TRUE

\* agreement_count >= config.min_models_required, the second condition of
\* success
agreementEnough(agreement_count, mmr) == agreement_count >= mmr

\* checkConsensus: ok, consensus_value (meaningful only when ok),
\* models_agreed, and oob = sorted[size / 2] was read from an empty vector
checkConsensus(valid_signals, cfg) ==
    LET n == Len(valid_signals)
        mmr == cfg.min_models_required
    IN  IF countCheckFails(n, mmr)
        THEN [ok |-> FALSE, consensus_value |-> NaN, models_agreed |-> 0, oob |-> FALSE]
        ELSE IF n = 0
        THEN [ok |-> FALSE, consensus_value |-> NaN, models_agreed |-> 0, oob |-> TRUE]
        ELSE
        LET values == [ i \in 1 .. n |-> valid_signals[i].value ]
            sorted == StdSort(values)
            median == sorted[medianIndex(n) + 1]
            median_sign == SignOf(median)
            agree == [ i \in 1 .. n |-> SignOf(values[i]) = median_sign ]
            agreement_count == Cardinality({ i \in 1 .. n : agree[i] })
            ratio_ok == agreement_count * 1000 >= cfg.sign_agreement_threshold * n
        IN  IF ratio_ok /\ agreementEnough(agreement_count, mmr)
            THEN [ ok |-> TRUE,
                   consensus_value |->
                       FDivCount(SumSeq(SelectIdx(values, agree, 1)), agreement_count),
                   models_agreed |-> agreement_count, oob |-> FALSE ]
            ELSE [ ok |-> FALSE, consensus_value |-> NaN,
                   models_agreed |-> agreement_count, oob |-> FALSE ]

\* variant: a mean of exactly zero counts as negative (fb > 0)
getFallbackValue_StrictSign(buf, cfg) ==
    (IF FGe(calculateFallbackValue(buf), 1) THEN 1 ELSE -1)
        * cfg.fallback_position_scale

getFallbackValue(buf, cfg) ==
    SignOf(calculateFallbackValue(buf)) * cfg.fallback_position_scale

\* variant: the Decision also takes its confidence from the clock
startDecision_ClockSeeded(now) ==
    [DefaultDecision EXCEPT !.timestamp_ns = now, !.confidence = now]

\* Decision decision; decision.timestamp_ns = now()
startDecision(now) == [DefaultDecision EXCEPT !.timestamp_ns = now]

\* variant: the empty batch is not intercepted
signalsEmpty_Never(model_signals) == FALSE

\* if (model_signals.empty()) in makeDecision
signalsEmpty(model_signals) == model_signals = <<>>

\* variant: the loop that fills contributing_models is left out
contributingModels_None(valid) == <<>>

\* for (const auto& sig : valid) decision.contributing_models.push_back(sig.model_id)
contributingModels(valid) == [ i \in 1 .. Len(valid) |-> valid[i].model_id ]

\* variant: the no-consensus branch reports the reserved status
noConsensusStatus_Fallback == "FALLBACK_ACTIVATED"

\* decision.status = REJECTED_NO_CONSENSUS
noConsensusStatus == "REJECTED_NO_CONSENSUS"

\* makeDecision as a function of the batch, the clock reading, the config
\* and the buffer: the Decision returned, the buffer left, and whether the
\* call read out of bounds
makeDecisionResult(model_signals, now, cfg, buf) ==
    LET d0 == startDecision(now)
    IN  IF signalsEmpty(model_signals)
        THEN [ d |-> [d0 EXCEPT !.status = "ERROR_NO_MODELS",
                                !.reasoning = "No model inputs"],
               buf |-> buf, oob |-> FALSE ]
        ELSE
        LET valid == applySafetyLayer(model_signals, cfg)
        IN  IF validEmpty(valid)
            THEN [ d |-> [d0 EXCEPT !.status = "REJECTED_LOW_CONFIDENCE",
                                    !.final_value = getFallbackValue(buf, cfg),
                                    !.confidence = 100,
                                    !.fallback_used = TRUE,
                                    !.reasoning = "All models failed confidence - fallback"],
                   buf |-> buf, oob |-> FALSE ]
            ELSE
            LET c == checkConsensus(valid, cfg)
            IN  IF ~c.ok
                THEN [ d |-> [d0 EXCEPT !.status = noConsensusStatus,
                                        !.final_value = getFallbackValue(buf, cfg),
                                        !.confidence = 200,
                                        !.fallback_used = TRUE,
                                        !.models_agreed = c.models_agreed,
                                        !.reasoning = "No consensus - fallback"],
                       buf |-> buf, oob |-> c.oob ]
                ELSE
                LET fv == smoothPosition(c.consensus_value)
                    confs == [ i \in 1 .. Len(valid) |-> valid[i].confidence ]
                IN  [ d |-> [d0 EXCEPT !.status = "DECISION_VALID",
                                       !.final_value = fv,
                                       !.confidence = FDivCount(SumSeq(confs), Len(valid)),
                                       !.contributing_models = contributingModels(valid),
                                       !.models_agreed = c.models_agreed,
                                       !.fallback_used = FALSE,
                                       !.reasoning = "Consensus: "
                                           \o ToString(c.models_agreed) \o " models"],
                      buf |-> updateFallbackBuffer(buf, cfg, fv),
                      oob |-> c.oob ]

\* a call that reads out of bounds has undefined behaviour: fault records
\* that the call need not have returned a Decision at all
makeDecision(model_signals, now) ==
    /\ LET r == makeDecisionResult(model_signals, now, config, fallback_buffer)
       IN  /\ decision' = r.d
           /\ fallback_buffer' = r.buf
           /\ fault' = (fault \/ r.oob)
    /\ UNCHANGED config

reset ==
    /\ fallback_buffer' = <<>>
    /\ UNCHANGED << config, decision, fault >>

setConfig(cfg) ==
    /\ config' = cfg
    /\ UNCHANGED << fallback_buffer, decision, fault >>

\* ------------------------------------------------------------------------
\* AuditLogger (aille_audit.cpp; the copy in aille.hpp has the same chain
\* logic, without contributing_models, user_id and models_agreed in the hash)
\* ------------------------------------------------------------------------
GenesisHash == "0000000000000000"

\* operator<< of a float
FloatStr(x) == IF x = NaN THEN "nan" ELSE ToString(x)

\* the text computeHash feeds to std::hash: the fields written one after the
\* other with no separator
HashInput(record) ==
    ToString(record.timestamp_ns) \o ToString(record.decision_id)
    \o FloatStr(record.final_value) \o FloatStr(record.confidence)
    \o ToString(record.models_agreed) \o record.reasoning \o record.prev_hash

\* std::hash<std::string> printed as 16 hex digits.  The 64-bit hash is taken
\* to be collision-free on the texts of the model and is written as its
\* preimage in brackets; two texts that are equal give equal hashes.
computeHash(record) == "h[" \o HashInput(record) \o "]"

\* variant: ++next_decision_id, the id after the increment
takeDecisionId_Pre(next_id) == next_id + 1

\* next_decision_id++ : the id given to the record
takeDecisionId(next_id) == next_id

\* variant: every record is linked to the genesis sentinel
linkPrevHash_Genesis(last) == GenesisHash

\* record.prev_hash = last_hash
linkPrevHash(last) == last

\* variant: last_hash is not advanced to the new record's hash
advanceLastHash_Stale(record) == record.prev_hash

\* last_hash = record.hash
advanceLastHash(record) == record.hash

\* variant: the new record replaces the trail
pushBack_Overwrite(trail, record) == <<record>>

\* audit_trail.push_back(record)
pushBack(trail, record) == Append(trail, record)

\* variant: the hash is computed before prev_hash is assigned
hashedRecord_Unlinked(record) == [record EXCEPT !.prev_hash = ""]

\* the record as it is when computeHash is called on it: every field but
\* hash is assigned
hashedRecord(record) == record

\* the AuditRecord logDecision builds
buildRecord(d, next_id, last, symbol, strategy_id, user_id) ==
    LET r0 == [ timestamp_ns |-> d.timestamp_ns,
                decision_id |-> takeDecisionId(next_id),
                status |-> d.status,
                final_value |-> d.final_value,
                confidence |-> d.confidence,
                models_agreed |-> d.models_agreed,
                fallback_used |-> d.fallback_used,
                reasoning |-> d.reasoning,
                contributing_models |-> d.contributing_models,
                symbol |-> symbol,
                strategy_id |-> strategy_id,
                user_id |-> user_id,
                hash |-> "",
                prev_hash |-> linkPrevHash(last) ]
    IN  [r0 EXCEPT !.hash = computeHash(hashedRecord(r0))]

\* logDecision returns void.  write_ok: whether the operating system takes
\* the row; a failed write sets the stream's failbit and nothing else.
logDecision(d, symbol, strategy_id, user_id, write_ok) ==
    LET record == buildRecord(d, next_decision_id, last_hash,
                              symbol, strategy_id, user_id)
    IN  /\ next_decision_id' = next_decision_id + 1
        /\ last_hash' = advanceLastHash(record)
        /\ audit_trail' = pushBack(audit_trail, record)
        /\ IF log_open
           THEN IF ~log_fail /\ write_ok
                THEN /\ file_rows' = Append(file_rows, record.decision_id)
                     /\ log_fail' = log_fail
                ELSE /\ file_rows' = file_rows
                     /\ log_fail' = TRUE
           ELSE UNCHANGED << file_rows, log_fail >>
        /\ returned' = [op |-> "logDecision", value |-> "void"]
        /\ UNCHANGED log_open

\* open(filename).  os_ok: whether the file can be opened.  std::ofstream::open
\* on a stream that is already open fails and sets failbit; on success it
\* clears the error state.
open(os_ok) ==
    /\ IF log_open
       THEN /\ log_fail' = TRUE
            /\ log_open' = log_open
            /\ returned' = [op |-> "open", value |-> "true"]
       ELSE IF os_ok
            THEN /\ log_fail' = FALSE
                 /\ log_open' = TRUE
                 /\ returned' = [op |-> "open", value |-> "true"]
            ELSE /\ log_fail' = TRUE
                 /\ log_open' = FALSE
                 /\ returned' = [op |-> "open", value |-> "false"]
    /\ UNCHANGED << audit_trail, next_decision_id, last_hash, file_rows >>

close ==
    /\ log_open' = FALSE
    /\ returned' = [op |-> "close", value |-> "void"]
    /\ UNCHANGED << audit_trail, next_decision_id, last_hash, log_fail, file_rows >>

\* verifyIntegrity: the walk over the trail, expected starting at genesis
RECURSIVE verifyFrom(_, _, _)
verifyFrom(trail, i, expected_hash) ==
    IF i > Len(trail) THEN TRUE
    ELSE IF trail[i].prev_hash # expected_hash THEN FALSE
    ELSE verifyFrom(trail, i + 1, trail[i].hash)

\* variant: the first record's prev_hash is not compared with the genesis
\* sentinel
verifyIntegrity_SkipGenesis(trail) ==
    IF trail = <<>> THEN TRUE ELSE verifyFrom(trail, 2, trail[1].hash)

verifyIntegrity(trail) ==
    IF trail = <<>> THEN TRUE ELSE verifyFrom(trail, 1, GenesisHash)

getAuditTrailSize(trail) == Len(trail)

\* variant: the test is inverted, the records outside the period are counted
inRange_Outside(record, start_ns, end_ns) ==
    ~(record.timestamp_ns >= start_ns /\ record.timestamp_ns <= end_ns)

\* record.timestamp_ns >= start_ns && record.timestamp_ns <= end_ns
inRange(record, start_ns, end_ns) ==
    record.timestamp_ns >= start_ns /\ record.timestamp_ns <= end_ns

\* variant: the fallback counter counts the status FALLBACK_ACTIVATED
reportOf_FallbackStatus(trail, start_ns, end_ns) ==
    LET counted == SelectSeq(trail, LAMBDA r : inRange(r, start_ns, end_ns))
        count(P(_)) == Len(SelectSeq(counted, P))
    IN  [ start_ns |-> start_ns,
          end_ns |-> end_ns,
          total |-> Len(counted),
          valid |-> count(LAMBDA r : r.status = "DECISION_VALID"),
          fallback |-> count(LAMBDA r : r.status = "FALLBACK_ACTIVATED"),
          rejected_confidence |-> count(LAMBDA r : r.status = "REJECTED_LOW_CONFIDENCE"),
          rejected_consensus |-> count(LAMBDA r : r.status = "REJECTED_NO_CONSENSUS"),
          integrity |-> IF verifyIntegrity(trail) THEN "VERIFIED" ELSE "COMPROMISED" ]

\* the report generateReport writes: the period, the five counters of its
\* loop over the trail and the line "Audit Trail Integrity"
reportOf(trail, start_ns, end_ns) ==
    LET counted == SelectSeq(trail, LAMBDA r : inRange(r, start_ns, end_ns))
        count(P(_)) == Len(SelectSeq(counted, P))
    IN  [ start_ns |-> start_ns,
          end_ns |-> end_ns,
          total |-> Len(counted),
          valid |-> count(LAMBDA r : r.status = "DECISION_VALID"),
          fallback |-> count(LAMBDA r : r.fallback_used),
          rejected_confidence |-> count(LAMBDA r : r.status = "REJECTED_LOW_CONFIDENCE"),
          rejected_consensus |-> count(LAMBDA r : r.status = "REJECTED_NO_CONSENSUS"),
          integrity |-> IF verifyIntegrity(trail) THEN "VERIFIED" ELSE "COMPROMISED" ]

\* variant: the report drains the trail it has counted
generateReport_Draining(output_ok, start_ns, end_ns) ==
    /\ report' = IF output_ok
                 THEN SubSeq(<< reportOf(audit_trail, start_ns, end_ns) >> \o report,
                             1, Min(2, Len(report) + 1))
                 ELSE report
    /\ returned' = [op |-> "generateReport", value |-> "void"]
    /\ audit_trail' = <<>>
    /\ UNCHANGED << next_decision_id, last_hash, log_open, log_fail, file_rows >>

\* generateReport(output_file, start_ns, end_ns), a const method that returns
\* void.  output_ok: whether output_file can be opened; if not the call
\* returns before it writes anything.  The new report is put in front of
\* the ones written before.
generateReport(output_ok, start_ns, end_ns) ==
    /\ report' = IF output_ok
                 THEN SubSeq(<< reportOf(audit_trail, start_ns, end_ns) >> \o report,
                             1, Min(2, Len(report) + 1))
                 ELSE report
    /\ returned' = [op |-> "generateReport", value |-> "void"]
    /\ UNCHANGED << audit_trail, next_decision_id, last_hash, log_open, log_fail,
                    file_rows >>

\* a call of verifyIntegrity(), a const method
verifyIntegrityCall ==
    /\ returned' = [op |-> "verifyIntegrity",
                    value |-> IF verifyIntegrity(audit_trail) THEN "true" ELSE "false"]
    /\ UNCHANGED << audit_trail, next_decision_id, last_hash, log_open, log_fail,
                    file_rows >>

\* ------------------------------------------------------------------------
\* MetricsCollector
\* ------------------------------------------------------------------------
\* the float +infinity; -Inf is -infinity
Inf == 2000000

\* MAX_SAMPLES is 10000 in the source; the model's sample buffer has
\* MaxSamples slots
MAX_SAMPLES == MaxSamples

\* the counters are 64 bits wide in the source; the model's counters are as
\* wide as the integers of the model checker
UINT64_MAX == 2147483647

\* d.models_agreed < 1000: the keys the histogram takes
HistogramLimit == 1000

\* MetricsSnapshot(): the default member initializers
MetricsSnapshot ==
    [ total_decisions |-> 0,
      valid_decisions |-> 0,
      fallback_activations |-> 0,
      rejected_confidence |-> 0,
      rejected_consensus |-> 0,
      invalid_inputs |-> 0,
      average_confidence |-> 0,
      fallback_rate |-> 0,
      consensus_failure_rate |-> 0,
      min_confidence |-> 0,
      max_confidence |-> 0,
      stddev_confidence |-> 0,
      models_agreed_histogram |-> [k \in {} |-> 0],
      last_decision_timestamp_ns |-> 0,
      overflow_detected |-> FALSE ]

\* MetricsCollector(): the collector after construction.  mtx is the thread
\* that holds the mutex, 0 when it is free.
MetricsCollector ==
    [ snapshot |-> MetricsSnapshot,
      confidence_samples |-> <<>>,
      sample_write_index |-> 0,
      samples_buffer_full |-> FALSE,
      overflow_flag |-> FALSE,
      mtx |-> 0 ]

\* x++ on a uint64_t
Increment(x) == IF x = UINT64_MAX THEN 0 ELSE x + 1

\* variant: the timestamp is not looked at
isValidDecision_AnyTimestamp(d) ==
    /\ ~(d.confidence = NaN \/ Abs(d.confidence) = Inf)
    /\ ~(d.confidence < 0 \/ d.confidence > 1000)
    /\ ~(d.models_agreed < 0)

isValidDecision(d) ==
    /\ ~(d.confidence = NaN \/ Abs(d.confidence) = Inf)
    /\ ~(d.confidence < 0 \/ d.confidence > 1000)
    /\ ~(d.timestamp_ns = 0)
    /\ ~(d.models_agreed < 0)

\* variant: the write index is not advanced
addConfidenceSample_NoAdvance(c, confidence) ==
    IF Len(c.confidence_samples) < MAX_SAMPLES
    THEN [c EXCEPT !.confidence_samples = Append(@, confidence)]
    ELSE [c EXCEPT !.samples_buffer_full = TRUE,
                   !.confidence_samples[c.sample_write_index + 1] = confidence]

\* sample_write_index counts from 0, the positions of a sequence from 1
addConfidenceSample(c, confidence) ==
    IF Len(c.confidence_samples) < MAX_SAMPLES
    THEN [c EXCEPT !.confidence_samples = Append(@, confidence)]
    ELSE [c EXCEPT !.samples_buffer_full = TRUE,
                   !.confidence_samples[c.sample_write_index + 1] = confidence,
                   !.sample_write_index = (c.sample_write_index + 1) % MAX_SAMPLES]

\* static_cast<float>(a) / static_cast<float>(b) of two counters
Rate(a, b) == RoundDiv(a * 1000, b)

\* std::sqrt of a value given in millionths, in thousandths
Sqrt(x) == CHOOSE r \in 0 .. 1000 : r * r <= x /\ x < (r + 1) * (r + 1)

SeqMin(s) == CHOOSE x \in { s[i] : i \in 1 .. Len(s) } : \A i \in 1 .. Len(s) : x <= s[i]

SeqMax(s) == CHOOSE x \in { s[i] : i \in 1 .. Len(s) } : \A i \in 1 .. Len(s) : x >= s[i]

recomputeStatistics(c) ==
    LET s == c.snapshot
        samples == c.confidence_samples
        n == Len(samples)
    IN  IF s.total_decisions = 0 THEN c
        ELSE
        LET rates == [s EXCEPT
                !.fallback_rate = Rate(s.fallback_activations, s.total_decisions),
                !.consensus_failure_rate = Rate(s.rejected_consensus, s.total_decisions)]
        IN  IF n = 0
            THEN [c EXCEPT !.snapshot =
                     [rates EXCEPT !.average_confidence = 0, !.min_confidence = 0,
                                   !.max_confidence = 0, !.stddev_confidence = 0]]
            ELSE
            LET mean == RoundDiv(SumSeq(samples), n)
                sq == [ i \in 1 .. n |-> (samples[i] - mean) * (samples[i] - mean) ]
            IN  [c EXCEPT !.snapshot =
                    [rates EXCEPT !.average_confidence = mean,
                                  !.min_confidence = SeqMin(samples),
                                  !.max_confidence = SeqMax(samples),
                                  !.stddev_confidence = Sqrt(SumSeq(sq) \div n)]]

\* variant: the no-consensus case does not count a fallback activation
countStatus_NoFallbackCount(s, status) ==
    IF status = "DECISION_VALID"
    THEN [s EXCEPT !.valid_decisions = Increment(@)]
    ELSE IF status = "REJECTED_LOW_CONFIDENCE"
    THEN [s EXCEPT !.rejected_confidence = Increment(@),
                   !.fallback_activations = Increment(@)]
    ELSE IF status = "REJECTED_NO_CONSENSUS"
    THEN [s EXCEPT !.rejected_consensus = Increment(@)]
    ELSE IF status = "FALLBACK_ACTIVATED"
    THEN [s EXCEPT !.fallback_activations = Increment(@)]
    ELSE s

\* the switch on d.status
countStatus(s, status) ==
    IF status = "DECISION_VALID"
    THEN [s EXCEPT !.valid_decisions = Increment(@)]
    ELSE IF status = "REJECTED_LOW_CONFIDENCE"
    THEN [s EXCEPT !.rejected_confidence = Increment(@),
                   !.fallback_activations = Increment(@)]
    ELSE IF status = "REJECTED_NO_CONSENSUS"
    THEN [s EXCEPT !.rejected_consensus = Increment(@),
                   !.fallback_activations = Increment(@)]
    ELSE IF status = "FALLBACK_ACTIVATED"
    THEN [s EXCEPT !.fallback_activations = Increment(@)]
    ELSE s

\* snapshot.models_agreed_histogram[d.models_agreed]++, operator[] inserting
\* a count of 0 for a key that is not there
countAgreed(h, k) ==
    IF k >= 0 /\ k < HistogramLimit
    THEN [ j \in DOMAIN h \cup { k } |->
             IF j = k THEN Increment(IF k \in DOMAIN h THEN h[k] ELSE 0) ELSE h[j] ]
    ELSE h

\* variant: the counter is not compared with its limit
atCounterLimit_Never(total) == FALSE

\* snapshot.total_decisions == UINT64_MAX
atCounterLimit(total) == total = UINT64_MAX

\* the body of observeDecision, which runs with the mutex held
observeDecisionResult(c, d) ==
    IF ~isValidDecision(d)
    THEN [c EXCEPT !.snapshot.invalid_inputs = Increment(@)]
    ELSE IF atCounterLimit(c.snapshot.total_decisions)
    THEN [c EXCEPT !.overflow_flag = TRUE, !.snapshot.overflow_detected = TRUE]
    ELSE
    LET c1 == [c EXCEPT !.snapshot.total_decisions = Increment(@),
                        !.snapshot.last_decision_timestamp_ns = d.timestamp_ns]
        c2 == addConfidenceSample(c1, d.confidence)
        c3 == [c2 EXCEPT !.snapshot = countStatus(@, d.status)]
        c4 == [c3 EXCEPT !.snapshot.models_agreed_histogram =
                            countAgreed(@, d.models_agreed)]
    IN  recomputeStatistics(c4)

\* variant: the Decision is taken by non-const reference and its confidence
\* is clamped to [0, 1] in place
afterObserve_Clamped(d) ==
    [d EXCEPT !.confidence = IF d.confidence = NaN THEN 0
                             ELSE IF d.confidence < 0 THEN 0
                             ELSE IF d.confidence > 1000 THEN 1000
                             ELSE IF d.status = "DECISION_VALID" THEN 1000
                             ELSE d.confidence]

\* const Decision& d: the caller's Decision after the call
afterObserve(d) == d

\* variant: the guard is a temporary, released before the body runs
mutexFree_Always(c) == TRUE

\* std::lock_guard<std::mutex> lock(mtx) succeeds when no thread holds mtx
mutexFree(c) == c.mtx = 0

\* observeDecision(d) returns void; lock_guard takes and releases the mutex
observeDecision(d) ==
    /\ mutexFree(metrics)
    /\ metrics' = observeDecisionResult(metrics, d)
    /\ returned' = [op |-> "observeDecision", value |-> "void"]

\* what the calls other than observeDecision return, and the collector
\* reset leaves
getSnapshotResult(c) == c.snapshot

isHealthyResult(c, max_fallback_rate) ==
    c.snapshot.fallback_rate <= max_fallback_rate /\ ~c.snapshot.overflow_detected

getSampleCountResult(c) ==
    IF c.samples_buffer_full THEN MAX_SAMPLES ELSE Len(c.confidence_samples)

resetResult(c) ==
    [c EXCEPT !.snapshot = MetricsSnapshot,
              !.confidence_samples = <<>>,
              !.sample_write_index = 0,
              !.samples_buffer_full = FALSE,
              !.overflow_flag = FALSE]

getSnapshot ==
    /\ mutexFree(metrics)
    /\ returned' = [op |-> "getSnapshot", value |-> getSnapshotResult(metrics)]
    /\ UNCHANGED metrics

\* bool isHealthy(float max_fallback_rate = 0.10f)
isHealthy(max_fallback_rate) ==
    /\ mutexFree(metrics)
    /\ returned' = [op |-> "isHealthy",
                    value |-> isHealthyResult(metrics, max_fallback_rate)]
    /\ UNCHANGED metrics

getSampleCount ==
    /\ mutexFree(metrics)
    /\ returned' = [op |-> "getSampleCount", value |-> getSampleCountResult(metrics)]
    /\ UNCHANGED metrics

\* MetricsCollector::reset
resetMetrics ==
    /\ mutexFree(metrics)
    /\ metrics' = resetResult(metrics)
    /\ returned' = [op |-> "reset", value |-> "void"]

\* ------------------------------------------------------------------------
\* Inputs
\* ------------------------------------------------------------------------
Values == { -30, 30, NaN }

Confidences == { 100, 900 }

Signals == { ModelSignal(v, c, 0) : v \in Values, c \in Confidences }

\* model ids follow the position in the batch, as in the examples
WithIds(s) == [ i \in 1 .. Len(s) |-> [s[i] EXCEPT !.model_id = i - 1] ]

Batches == UNION { { WithIds(s) : s \in [1 .. n -> Signals] } : n \in 0 .. MaxBatch }

\* readings of the clock that stamps a Decision
Times == { 1 }

\* checkConsensus was not called
NoConsensus ==
    [ok |-> FALSE, consensus_value |-> NaN, models_agreed |-> 0, oob |-> FALSE]

\* no engine call was made yet
NoCall ==
    [ op |-> "none", model_signals |-> <<>>, buf |-> <<>>, valid |-> <<>>,
      consensus |-> NoConsensus ]

\* the threads that share one engine; none is inside makeDecision
Threads == { 1, 2 }

IdleThreads ==
    [ pc |-> [t \in Threads |-> "idle"],
      value |-> [t \in Threads |-> 0],
      cur |-> [t \in Threads |-> 0],
      popped |-> 0,
      arg |-> [t \in Threads |-> DefaultDecision],
      local |-> [t \in Threads |-> MetricsCollector],
      id |-> [t \in Threads |-> 0],
      prev |-> [t \in Threads |-> ""] ]

\* a second engine that is not used: default-constructed
IdleTwin ==
    [ config |-> DefaultConfig, fallback_buffer |-> <<>>,
      decision |-> DefaultDecision ]

\* AuditLogger(): the logger after construction, and the histories
InitLogger ==
    /\ audit_trail = <<>>
    /\ next_decision_id = 1
    /\ last_hash = GenesisHash
    /\ log_open = FALSE
    /\ log_fail = FALSE
    /\ file_rows = <<>>
    /\ returned = [op |-> "AuditLogger", value |-> "void"]
    /\ accepted = <<>>
    /\ log_calls = 0
    /\ tampered = FALSE
    /\ call = NoCall
    /\ threads = IdleThreads
    /\ report = <<>>
    /\ metrics = MetricsCollector
    /\ observed = <<>>

Init ==
    /\ config \in Configs
    /\ fallback_buffer = <<>>
    /\ decision = DefaultDecision
    /\ fault = FALSE
    /\ InitLogger
    /\ twin = IdleTwin

\* ------------------------------------------------------------------------
\* The engine under any sequence of makeDecision, reset and setConfig
\* ------------------------------------------------------------------------
MakeDecisionStep ==
    /\ Len(fallback_buffer) < MaxBuffer
    /\ \E s \in Batches, t \in Times : makeDecision(s, t)
    /\ UNCHANGED << audit_vars, history_vars, aux_vars, ext_vars >>

ResetStep == reset /\ UNCHANGED << audit_vars, history_vars, aux_vars, ext_vars >>

SetConfigStep ==
    /\ \E cfg \in Configs : setConfig(cfg)
    /\ UNCHANGED << audit_vars, history_vars, aux_vars, ext_vars >>

Next == MakeDecisionStep \/ ResetStep \/ SetConfigStep

Spec == Init /\ [][Next]_vars

\* ------------------------------------------------------------------------
\* One call on an engine in any state: the configuration, the buffer and the
\* batch are drawn, and makeDecision or its safety layer is applied
\* ------------------------------------------------------------------------
FnValues == { -40, 0, 50, NaN }

FnConfidences == { 100, 300, 900 }

FnSignals == { ModelSignal(v, c, 0) : v \in FnValues, c \in FnConfidences }

FnBatches ==
    UNION { { WithIds(s) : s \in [1 .. n -> FnSignals] } : n \in 0 .. MaxBatch }

\* buffers earlier Valid decisions leave: final_values are tanh results
\* (1.0, -0.999, 0.987, 0, NaN); means above, below and equal to zero
FnBuffers ==
    { <<>>, <<1000>>, <<-999>>, <<0>>, <<NaN>>, <<1000, -1000>>,
      <<987, -999>>, <<999, -1000, 0>> }

\* the configurations, and two under which half of the signals is agreement
\* enough (threshold 0.5, one or two models required)
FnConfigs ==
    Configs \cup { [DefaultConfig EXCEPT !.sign_agreement_threshold = 500,
                                          !.min_models_required = m] : m \in {1, 2} }

InitFn ==
    /\ config \in FnConfigs
    /\ fallback_buffer \in FnBuffers
    /\ decision = DefaultDecision
    /\ fault = FALSE
    /\ InitLogger
    /\ twin = IdleTwin

\* what makeDecision computed on the way: the validated set and, when it
\* got that far, the outcome of checkConsensus
FnDecide ==
    /\ call.op = "none"
    /\ \E s \in FnBatches, t \in Times :
        /\ makeDecision(s, t)
        /\ LET valid == IF signalsEmpty(s) THEN <<>> ELSE applySafetyLayer(s, config)
           IN  call' = [ op |-> "makeDecision", model_signals |-> s,
                         buf |-> fallback_buffer, valid |-> valid,
                         consensus |-> IF validEmpty(valid) THEN NoConsensus
                                       ELSE checkConsensus(valid, config) ]
    /\ UNCHANGED << audit_vars, history_vars, twin, threads, ext_vars >>

\* applySafetyLayer on its own
FnSafety ==
    /\ call.op = "none"
    /\ \E s \in FnBatches :
        call' = [ op |-> "applySafetyLayer", model_signals |-> s,
                  buf |-> fallback_buffer, valid |-> applySafetyLayer(s, config),
                  consensus |-> NoConsensus ]
    /\ UNCHANGED << engine_vars, audit_vars, history_vars, twin, threads, ext_vars >>

NextFn == FnDecide \/ FnSafety

SpecFn == InitFn /\ [][NextFn]_vars

\* ------------------------------------------------------------------------
\* Two engines constructed with the same configuration and fed the same
\* batches, the second one at a later reading of the clock
\* ------------------------------------------------------------------------
TwinTimes == { 2 }

InitTwin ==
    /\ config \in Configs
    /\ fallback_buffer = <<>>
    /\ decision = DefaultDecision
    /\ fault = FALSE
    /\ InitLogger
    /\ twin = [IdleTwin EXCEPT !.config = config]

TwinDecide ==
    /\ Len(fallback_buffer) < MaxBuffer
    /\ \E s \in Batches, t1 \in Times, t2 \in TwinTimes :
        /\ makeDecision(s, t1)
        /\ LET r == makeDecisionResult(s, t2, twin.config, twin.fallback_buffer)
           IN  twin' = [twin EXCEPT !.decision = r.d, !.fallback_buffer = r.buf]
    /\ UNCHANGED << audit_vars, history_vars, call, threads, ext_vars >>

TwinReset ==
    /\ reset
    /\ twin' = [twin EXCEPT !.fallback_buffer = <<>>]
    /\ UNCHANGED << audit_vars, history_vars, call, threads, ext_vars >>

NextTwin == TwinDecide \/ TwinReset

SpecTwin == InitTwin /\ [][NextTwin]_vars

\* ------------------------------------------------------------------------
\* Threads that call makeDecision on one shared engine.  The engine holds no
\* lock, so the steps of the calls interleave: the computation up to the
\* Decision, then in updateFallbackBuffer the push_back (it reads the end
\* of the deque, then stores the value and the new end) and the pop_front
\* loop.  threads.cur is the end position a thread read, counted from the
\* first element ever stored; threads.popped counts the pop_fronts.
\* ------------------------------------------------------------------------
ThreadBatches ==
    { << ModelSignal(30, 100, 0) >>,
      << ModelSignal(30, 900, 0), ModelSignal(30, 900, 1) >>,
      << ModelSignal(-30, 900, 0), ModelSignal(-30, 900, 1) >> }

InitThreads == Init /\ config = DefaultConfig

\* makeDecision up to the call of updateFallbackBuffer; a call that is not
\* Valid returns here
ThreadCall(t) ==
    /\ threads.pc[t] = "idle"
    /\ Len(accepted) < MaxAccepted
    /\ \E s \in ThreadBatches, now \in Times :
        LET r == makeDecisionResult(s, now, config, fallback_buffer)
        IN  /\ decision' = r.d
            /\ fault' = (fault \/ r.oob)
            /\ IF r.d.status = "DECISION_VALID"
               THEN /\ threads' = [threads EXCEPT !.pc[t] = "push",
                                                  !.value[t] = r.d.final_value]
                    /\ accepted' = Append(accepted, r.d.final_value)
               ELSE UNCHANGED << threads, accepted >>
    /\ UNCHANGED << config, fallback_buffer, audit_vars, log_calls, tampered,
                    call, twin, ext_vars >>

\* push_back reads where the deque ends
ThreadPushRead(t) ==
    /\ threads.pc[t] = "push"
    /\ threads' = [threads EXCEPT !.pc[t] = "store",
                                  !.cur[t] = threads.popped + Len(fallback_buffer)]
    /\ UNCHANGED << engine_vars, audit_vars, history_vars, call, twin, ext_vars >>

\* push_back stores the value at the position it read and sets the end of
\* the deque one past it
ThreadPushStore(t) ==
    /\ threads.pc[t] = "store"
    /\ LET rel == threads.cur[t] - threads.popped
           kept == IF rel <= 0 THEN 0
                   ELSE IF rel <= Len(fallback_buffer) THEN rel
                   ELSE Len(fallback_buffer)
       IN  fallback_buffer' =
               Append(SubSeq(fallback_buffer, 1, kept), threads.value[t])
    /\ threads' = [threads EXCEPT !.pc[t] = "trim"]
    /\ UNCHANGED << config, decision, fault, audit_vars, history_vars, call, twin, ext_vars >>

\* one turn of while (size() > window) pop_front(); the call returns when
\* the test fails
ThreadTrim(t) ==
    /\ threads.pc[t] = "trim"
    /\ IF config.fallback_window_size >= 0
          /\ Len(fallback_buffer) > config.fallback_window_size
       THEN /\ fallback_buffer' = Tail(fallback_buffer)
            /\ threads' = [threads EXCEPT !.popped = @ + 1]
       ELSE /\ fallback_buffer' = fallback_buffer
            /\ threads' = [threads EXCEPT !.pc[t] = "idle"]
    /\ UNCHANGED << config, decision, fault, audit_vars, history_vars, call, twin, ext_vars >>

NextThreads ==
    \E t \in Threads :
        ThreadCall(t) \/ ThreadPushRead(t) \/ ThreadPushStore(t) \/ ThreadTrim(t)

SpecThreads == InitThreads /\ [][NextThreads]_vars

\* ------------------------------------------------------------------------
\* The same engine when callers only ever supply configurations the data
\* model allows: window >= 1, min_models_required >= 1, grace <= min
\* ------------------------------------------------------------------------
ValidConfigs ==
    { c \in Configs : /\ c.fallback_window_size >= 1
                      /\ c.min_models_required >= 1
                      /\ c.grace_confidence_threshold <= c.min_confidence_threshold }

InitValid == Init /\ config \in ValidConfigs

SetValidConfigStep ==
    /\ \E cfg \in ValidConfigs : setConfig(cfg)
    /\ UNCHANGED << audit_vars, history_vars, aux_vars, ext_vars >>

NextValid == MakeDecisionStep \/ ResetStep \/ SetValidConfigStep

SpecValid == InitValid /\ [][NextValid]_vars

\* ------------------------------------------------------------------------
\* The engine with its window fixed at construction, recording the values
\* it accepted
\* ------------------------------------------------------------------------
FifoDecide ==
    /\ Len(accepted) < MaxAccepted
    /\ Len(fallback_buffer) < MaxBuffer
    /\ \E s \in Batches, t \in Times : makeDecision(s, t)
    /\ accepted' = IF decision'.status = "DECISION_VALID"
                   THEN Append(accepted, decision'.final_value)
                   ELSE accepted
    /\ UNCHANGED << audit_vars, log_calls, tampered, aux_vars, ext_vars >>

FifoReset ==
    /\ reset
    /\ accepted' = <<>>
    /\ UNCHANGED << audit_vars, log_calls, tampered, aux_vars, ext_vars >>

NextFifo == FifoDecide \/ FifoReset

SpecFifo == Init /\ [][NextFifo]_vars

\* ------------------------------------------------------------------------
\* The engine of the framework listings, after the component design: the
\* listings are not among the sources, their one description stands for both
\* ------------------------------------------------------------------------
\* filter: a signal at or above the minimum passes unchanged, one at or above
\* the grace threshold passes with its confidence times 0.8, the rest is
\* dropped; input order is kept
SafetyFilter(signals, cfg) ==
    LET atMin == [ i \in 1 .. Len(signals) |->
                     FGe(signals[i].confidence, cfg.min_confidence_threshold) ]
        atGrace == [ i \in 1 .. Len(signals) |->
                       FGe(signals[i].confidence, cfg.grace_confidence_threshold) ]
    IN  SelectIdx([ i \in 1 .. Len(signals) |->
                      IF atMin[i] THEN signals[i]
                      ELSE [signals[i] EXCEPT !.confidence = GracePenalty(@)] ],
                  [ i \in 1 .. Len(signals) |-> atMin[i] \/ atGrace[i] ], 1)

\* evaluate: fails with models_agreed 0 below the minimum count; the median
\* is the element at index floor(n/2) of the ascending values, 0 has sign +1,
\* and the vote succeeds on ratio and count with the mean of the agreeing
\* values
ConsensusEvaluator(valid, cfg) ==
    LET n == Len(valid)
    IN  IF n < cfg.min_models_required \/ n = 0
        THEN [ok |-> FALSE, value |-> NaN, models_agreed |-> 0]
        ELSE
        LET ascending == StdSort([ i \in 1 .. n |-> valid[i].value ])
            positive == FGe(ascending[(n \div 2) + 1], 0)
            sharing == [ i \in 1 .. n |-> FGe(valid[i].value, 0) = positive ]
            agreement_count == Cardinality({ i \in 1 .. n : sharing[i] })
        IN  IF /\ agreement_count * 1000 >= cfg.sign_agreement_threshold * n
               /\ agreement_count >= cfg.min_models_required
            THEN [ ok |-> TRUE,
                   value |-> FDivCount(
                       SumSeq(SelectIdx([ i \in 1 .. n |-> valid[i].value ], sharing, 1)),
                       agreement_count),
                   models_agreed |-> agreement_count ]
            ELSE [ok |-> FALSE, value |-> NaN, models_agreed |-> agreement_count]

\* FallbackStore.push: appends; the oldest values are evicted so that the
\* size does not exceed the window
FallbackStorePush(store, window, value) ==
    LET n == Len(store) + 1
    IN  IF n <= window THEN Append(store, value)
        ELSE SubSeq(Append(store, value), n - window + 1, n)

\* FallbackStore.directionalFallback: sign(currentMean()) * scale, the mean of
\* an empty store being 0 and sign(0) being +1
FallbackStoreDirectional(store, scale) ==
    LET currentMean == IF store = <<>> THEN 0 ELSE FDivCount(SumSeq(store), Len(store))
    IN  IF FGe(currentMean, 0) THEN scale ELSE -scale

\* DecisionComposer.makeDecision: the four terminal branches; d is the
\* Decision, store the FallbackStore afterwards
DecisionComposer(signals, now, cfg, store) ==
    LET fresh == [ final_value |-> 0, status |-> "ERROR_NO_MODELS", confidence |-> 0,
                   models_agreed |-> 0, fallback_used |-> FALSE, timestamp_ns |-> now,
                   contributing_models |-> <<>>, reasoning |-> "empty batch" ]
        valid == SafetyFilter(signals, cfg)
        vote == ConsensusEvaluator(valid, cfg)
        fallback == FallbackStoreDirectional(store, cfg.fallback_position_scale)
        position == IF vote.value = NaN THEN NaN
                    ELSE Tanh(RoundDiv(vote.value * 100, 100))
    IN  IF signals = <<>> THEN [d |-> fresh, store |-> store]
        ELSE IF valid = <<>>
        THEN [ d |-> [fresh EXCEPT !.status = "REJECTED_LOW_CONFIDENCE",
                                   !.final_value = fallback,
                                   !.confidence = 100,
                                   !.fallback_used = TRUE,
                                   !.reasoning = "safety-layer rejection"],
               store |-> store ]
        ELSE IF ~vote.ok
        THEN [ d |-> [fresh EXCEPT !.status = "REJECTED_NO_CONSENSUS",
                                   !.final_value = fallback,
                                   !.confidence = 200,
                                   !.fallback_used = TRUE,
                                   !.models_agreed = vote.models_agreed,
                                   !.reasoning = "no consensus"],
               store |-> store ]
        ELSE [ d |-> [fresh EXCEPT !.status = "DECISION_VALID",
                                   !.final_value = position,
                                   !.confidence = FDivCount(
                                       SumSeq([ i \in 1 .. Len(valid) |-> valid[i].confidence ]),
                                       Len(valid)),
                                   !.contributing_models =
                                       [ i \in 1 .. Len(valid) |-> valid[i].model_id ],
                                   !.models_agreed = vote.models_agreed,
                                   !.reasoning = "consensus"],
               store |-> FallbackStorePush(store, cfg.fallback_window_size, position) ]

\* the engine of aille.hpp and the engine of the listings, constructed with
\* the same configuration and given the same calls
InitCopies ==
    /\ config \in ValidConfigs
    /\ fallback_buffer = <<>>
    /\ decision = DefaultDecision
    /\ fault = FALSE
    /\ InitLogger
    /\ twin = [IdleTwin EXCEPT !.config = config]

\* batches given to both copies: a confident buy, a confident sell, a
\* confident NaN and an unsure buy, in every order
CopiesBatches ==
    { s \in Batches :
        \A i \in 1 .. Len(s) : s[i].confidence = 100 => s[i].value = 30 }

CopiesDecide ==
    /\ Len(fallback_buffer) < MaxBuffer
    /\ \E s \in CopiesBatches, t \in Times :
        /\ makeDecision(s, t)
        /\ LET r == DecisionComposer(s, t, twin.config, twin.fallback_buffer)
           IN  twin' = [twin EXCEPT !.decision = r.d, !.fallback_buffer = r.store]
        /\ call' = [NoCall EXCEPT !.op = "makeDecision", !.model_signals = s]
    /\ UNCHANGED << audit_vars, history_vars, threads, ext_vars >>

CopiesReset ==
    /\ reset
    /\ twin' = [twin EXCEPT !.fallback_buffer = <<>>]
    /\ call' = [NoCall EXCEPT !.op = "reset"]
    /\ UNCHANGED << audit_vars, history_vars, threads, ext_vars >>

CopiesSetConfig ==
    /\ \E cfg \in ValidConfigs :
        /\ setConfig(cfg)
        /\ twin' = [twin EXCEPT !.config = cfg]
    /\ call' = [NoCall EXCEPT !.op = "setConfig"]
    /\ UNCHANGED << audit_vars, history_vars, threads, ext_vars >>

NextCopies == CopiesDecide \/ CopiesReset \/ CopiesSetConfig

SpecCopies == InitCopies /\ [][NextCopies]_vars

\* ------------------------------------------------------------------------
\* One call with a batch of full-confidence signals, long enough for a
\* median that has a value on either side
\* ------------------------------------------------------------------------
MajorityBatches ==
    UNION { { WithIds(s) : s \in [1 .. n -> { ModelSignal(v, 900, 0) : v \in FnValues }] }
            : n \in 1 .. MaxBatch + 1 }

MajorityDecide ==
    /\ call.op = "none"
    /\ \E s \in MajorityBatches, t \in Times :
        /\ makeDecision(s, t)
        /\ LET valid == applySafetyLayer(s, config)
           IN  call' = [ op |-> "makeDecision", model_signals |-> s,
                         buf |-> fallback_buffer, valid |-> valid,
                         consensus |-> IF validEmpty(valid) THEN NoConsensus
                                       ELSE checkConsensus(valid, config) ]
    /\ UNCHANGED << audit_vars, history_vars, twin, threads, ext_vars >>

NextMajority == MajorityDecide

SpecMajority == Init /\ [][NextMajority]_vars

\* ------------------------------------------------------------------------
\* The engine with its window fixed at construction, recording the values
\* it accepted and which call was made last
\* ------------------------------------------------------------------------
FallbackDecide ==
    /\ Len(accepted) < MaxAccepted
    /\ Len(fallback_buffer) < MaxBuffer
    /\ \E s \in Batches, t \in Times : makeDecision(s, t)
    /\ accepted' = IF decision'.status = "DECISION_VALID"
                   THEN Append(accepted, decision'.final_value)
                   ELSE accepted
    /\ call' = [NoCall EXCEPT !.op = "makeDecision", !.buf = fallback_buffer]
    /\ UNCHANGED << audit_vars, log_calls, tampered, twin, threads, ext_vars >>

FallbackReset ==
    /\ reset
    /\ accepted' = <<>>
    /\ call' = [NoCall EXCEPT !.op = "reset"]
    /\ UNCHANGED << audit_vars, log_calls, tampered, twin, threads, ext_vars >>

NextFallback == FallbackDecide \/ FallbackReset

SpecFallback == Init /\ [][NextFallback]_vars

\* ------------------------------------------------------------------------
\* The ledger fed by an engine, as in the demo program: decisions are made,
\* logged with compliance metadata, and the file is opened and closed
\* ------------------------------------------------------------------------
DemoBatches ==
    { <<>>,
      << ModelSignal(30, 100, 0) >>,
      << ModelSignal(30, 900, 0), ModelSignal(-30, 900, 1) >>,
      << ModelSignal(30, 900, 0), ModelSignal(30, 900, 1) >> }

\* a Decision a caller builds itself to force the fallback
ForcedFallback(t) ==
    [DefaultDecision EXCEPT !.status = "FALLBACK_ACTIVATED",
                            !.final_value = 100,
                            !.fallback_used = TRUE,
                            !.timestamp_ns = t,
                            !.reasoning = "Forced fallback"]

\* the engine of the demo program: the default configuration
InitAudit == Init /\ config = DefaultConfig

AuditDecide ==
    /\ Len(fallback_buffer) < MaxBuffer
    /\ \E s \in DemoBatches, t \in Times : makeDecision(s, t)
    /\ UNCHANGED << audit_vars, history_vars, aux_vars, ext_vars >>

AuditReset == reset /\ UNCHANGED << audit_vars, history_vars, aux_vars, ext_vars >>

LogDecisionStep ==
    /\ log_calls < MaxLog
    /\ \E d \in { decision } \cup { ForcedFallback(t) : t \in Times },
          write_ok \in BOOLEAN :
            logDecision(d, "DEMO", "example_strategy", "", write_ok)
    /\ log_calls' = log_calls + 1
    /\ UNCHANGED << engine_vars, accepted, tampered, aux_vars, ext_vars >>

OpenStep ==
    /\ \E os_ok \in BOOLEAN : open(os_ok)
    /\ UNCHANGED << engine_vars, history_vars, aux_vars, ext_vars >>

CloseStep == close /\ UNCHANGED << engine_vars, history_vars, aux_vars, ext_vars >>

NextAudit == AuditDecide \/ AuditReset \/ LogDecisionStep \/ OpenStep \/ CloseStep

SpecAudit == InitAudit /\ [][NextAudit]_vars

\* ------------------------------------------------------------------------
\* The ledger with an outside party that overwrites the stored final_value
\* of one record and recomputes nothing
\* ------------------------------------------------------------------------
TamperValues == { 0, 100, 995, -995 }

tamperFinalValue(i, v) ==
    /\ i \in 1 .. Len(audit_trail)
    /\ v # audit_trail[i].final_value
    /\ audit_trail' = [audit_trail EXCEPT ![i].final_value = v]
    /\ UNCHANGED << next_decision_id, last_hash, log_open, log_fail, file_rows, returned >>

TamperStep ==
    /\ ~tampered
    /\ \E i \in 1 .. MaxLog, v \in TamperValues : tamperFinalValue(i, v)
    /\ tampered' = TRUE
    /\ UNCHANGED << engine_vars, accepted, log_calls, aux_vars, ext_vars >>

NextTamper == AuditDecide \/ LogDecisionStep \/ TamperStep

SpecTamper == InitAudit /\ [][NextTamper]_vars

\* ------------------------------------------------------------------------
\* The ledger with records of several timestamps, reports over several
\* periods, and an outside party that overwrites a stored prev_hash
\* ------------------------------------------------------------------------
ReportTimes == { 1, 2 }

\* Decisions of every status, made by a default engine or forced by the caller
ReportDecisions ==
    { makeDecisionResult(<<>>, 1, DefaultConfig, <<>>).d,
      makeDecisionResult(<< ModelSignal(30, 100, 0) >>, 1, DefaultConfig, <<>>).d,
      makeDecisionResult(<< ModelSignal(30, 900, 0), ModelSignal(-30, 900, 1) >>,
                         2, DefaultConfig, <<>>).d,
      ForcedFallback(2) }
    \cup { makeDecisionResult(<< ModelSignal(30, 900, 0), ModelSignal(30, 900, 1) >>,
                              t, DefaultConfig, <<>>).d : t \in ReportTimes }

\* the periods asked for: [0,1], [0,3], [2,3] and the empty [2,1]
PeriodStarts == { 0, 2 }

PeriodEnds == { 1, 3 }

tamperPrevHash(i) ==
    /\ i \in 1 .. Len(audit_trail)
    /\ audit_trail' = [audit_trail EXCEPT ![i].prev_hash = "overwritten"]
    /\ UNCHANGED << next_decision_id, last_hash, log_open, log_fail, file_rows, returned >>

ReportLog ==
    /\ log_calls < MaxLog
    /\ \E d \in ReportDecisions : logDecision(d, "DEMO", "example_strategy", "", TRUE)
    /\ log_calls' = log_calls + 1
    /\ report' = <<>>
    /\ UNCHANGED << engine_vars, accepted, tampered, aux_vars, metrics, observed >>

ReportTamper ==
    /\ ~tampered
    /\ \E i \in 1 .. MaxLog : tamperPrevHash(i)
    /\ tampered' = TRUE
    /\ report' = <<>>
    /\ UNCHANGED << engine_vars, accepted, log_calls, aux_vars, metrics, observed >>

ReportStep ==
    /\ \E output_ok \in BOOLEAN, start_ns \in PeriodStarts, end_ns \in PeriodEnds :
          generateReport(output_ok, start_ns, end_ns)
    /\ UNCHANGED << engine_vars, history_vars, aux_vars, metrics, observed >>

ReportVerify ==
    /\ verifyIntegrityCall
    /\ UNCHANGED << engine_vars, history_vars, aux_vars, ext_vars >>

NextReport == ReportLog \/ ReportTamper \/ ReportStep \/ ReportVerify

SpecReport == InitAudit /\ [][NextReport]_vars

\* ------------------------------------------------------------------------
\* The ledger whose stored chain fields are altered behind the logger's
\* back, one alteration per run, and verified
\* ------------------------------------------------------------------------
tamperHash(i) ==
    /\ i \in 1 .. Len(audit_trail)
    /\ audit_trail' = [audit_trail EXCEPT ![i].hash = "overwritten"]
    /\ UNCHANGED << next_decision_id, last_hash, log_open, log_fail, file_rows, returned >>

ChainTamperHash ==
    /\ ~tampered
    /\ \E i \in 1 .. MaxLog : tamperHash(i)
    /\ tampered' = TRUE
    /\ report' = <<>>
    /\ UNCHANGED << engine_vars, accepted, log_calls, aux_vars, metrics, observed >>

NextChain == ReportLog \/ ReportTamper \/ ChainTamperHash \/ ReportVerify

SpecChain == InitAudit /\ [][NextChain]_vars

\* ------------------------------------------------------------------------
\* The collector on its own, passed well-formed and malformed Decisions
\* ------------------------------------------------------------------------
\* a Decision of each status as an engine or a caller builds it
WellFormedDecisions ==
    { makeDecisionResult(<<>>, 1, DefaultConfig, <<>>).d,
      makeDecisionResult(<< ModelSignal(30, 100, 0) >>, 1, DefaultConfig, <<>>).d,
      makeDecisionResult(<< ModelSignal(30, 900, 0), ModelSignal(-30, 900, 1) >>,
                         1, DefaultConfig, <<>>).d,
      makeDecisionResult(<< ModelSignal(30, 900, 0), ModelSignal(30, 600, 1) >>,
                         1, DefaultConfig, <<>>).d,
      ForcedFallback(2),
      [ForcedFallback(2) EXCEPT !.confidence = 1000, !.models_agreed = HistogramLimit] }

\* Decisions isValidDecision refuses: a confidence that is NaN, infinite,
\* below 0 or above 1, a timestamp of 0, a negative models_agreed
MalformedDecisions ==
    { [ForcedFallback(1) EXCEPT !.confidence = c] : c \in { NaN, Inf, -Inf, -1, 1001 } }
    \cup { ForcedFallback(0), [ForcedFallback(1) EXCEPT !.models_agreed = -1] }

ObservedDecisions == WellFormedDecisions \cup MalformedDecisions

CollectorObserve ==
    /\ Len(observed) < MaxObserve
    /\ \E d \in ObservedDecisions :
        /\ observeDecision(d)
        /\ observed' = Append(observed, d)
    /\ UNCHANGED << engine_vars, audit_trail, next_decision_id, last_hash, log_open,
                    log_fail, file_rows, history_vars, aux_vars, report >>

CollectorSnapshot ==
    /\ getSnapshot
    /\ UNCHANGED << engine_vars, audit_trail, next_decision_id, last_hash, log_open,
                    log_fail, file_rows, history_vars, aux_vars, report, observed >>

CollectorHealthy ==
    /\ isHealthy(100)
    /\ UNCHANGED << engine_vars, audit_trail, next_decision_id, last_hash, log_open,
                    log_fail, file_rows, history_vars, aux_vars, report, observed >>

CollectorSampleCount ==
    /\ getSampleCount
    /\ UNCHANGED << engine_vars, audit_trail, next_decision_id, last_hash, log_open,
                    log_fail, file_rows, history_vars, aux_vars, report, observed >>

CollectorReset ==
    /\ resetMetrics
    /\ observed' = <<>>
    /\ UNCHANGED << engine_vars, audit_trail, next_decision_id, last_hash, log_open,
                    log_fail, file_rows, history_vars, aux_vars, report >>

NextMetrics ==
    \/ CollectorObserve
    \/ CollectorSnapshot
    \/ CollectorHealthy
    \/ CollectorSampleCount
    \/ CollectorReset

InitMetrics == Init /\ config = DefaultConfig

SpecMetrics == InitMetrics /\ [][NextMetrics]_vars

\* ------------------------------------------------------------------------
\* The collector that has counted UINT64_MAX Valid decisions, each with two
\* models agreed and confidence 0.75: its counters are at their limit and its
\* sample buffer was filled long ago
\* ------------------------------------------------------------------------
AgedCollector ==
    [ MetricsCollector EXCEPT
        !.snapshot = [ MetricsSnapshot EXCEPT
                         !.total_decisions = UINT64_MAX,
                         !.valid_decisions = UINT64_MAX,
                         !.average_confidence = 750,
                         !.min_confidence = 750,
                         !.max_confidence = 750,
                         !.models_agreed_histogram = [k \in {2} |-> UINT64_MAX],
                         !.last_decision_timestamp_ns = 1 ],
        !.confidence_samples = [ i \in 1 .. MAX_SAMPLES |-> 750 ],
        !.sample_write_index = (UINT64_MAX - MAX_SAMPLES) % MAX_SAMPLES,
        !.samples_buffer_full = TRUE ]

InitAged ==
    /\ config = DefaultConfig
    /\ fallback_buffer = <<>>
    /\ decision = DefaultDecision
    /\ fault = FALSE
    /\ audit_trail = <<>>
    /\ next_decision_id = 1
    /\ last_hash = GenesisHash
    /\ log_open = FALSE
    /\ log_fail = FALSE
    /\ file_rows = <<>>
    /\ returned = [op |-> "observeDecision", value |-> "void"]
    /\ accepted = <<>>
    /\ log_calls = 0
    /\ tampered = FALSE
    /\ call = NoCall
    /\ twin = IdleTwin
    /\ threads = IdleThreads
    /\ report = <<>>
    /\ metrics = AgedCollector
    /\ observed = <<>>

\* the thresholds a dashboard asks isHealthy about: 0, the default 0.10, 1
HealthThresholds == { 0, 100, 1000 }

AgedHealthy ==
    /\ \E max_fallback_rate \in HealthThresholds : isHealthy(max_fallback_rate)
    /\ UNCHANGED << engine_vars, audit_trail, next_decision_id, last_hash, log_open,
                    log_fail, file_rows, history_vars, aux_vars, report, observed >>

NextAged == CollectorObserve \/ CollectorSnapshot \/ AgedHealthy \/ CollectorReset

SpecAged == InitAged /\ [][NextAged]_vars

\* ------------------------------------------------------------------------
\* The collector passed well-formed Decisions until its sample buffer has
\* been filled and overwritten
\* ------------------------------------------------------------------------
SamplesObserve ==
    /\ Len(observed) < MaxFill
    /\ \E d \in WellFormedDecisions :
        /\ observeDecision(d)
        /\ observed' = Append(observed, d)
    /\ UNCHANGED << engine_vars, audit_trail, next_decision_id, last_hash, log_open,
                    log_fail, file_rows, history_vars, aux_vars, report >>

NextSamples == SamplesObserve \/ CollectorSampleCount \/ CollectorReset

SpecSamples == InitMetrics /\ [][NextSamples]_vars

\* ------------------------------------------------------------------------
\* An engine whose Decisions are passed to the collector and logged, next
\* to a second engine that is fed the same batches and has no collector
\* ------------------------------------------------------------------------
ObserverBatches ==
    { << ModelSignal(30, 100, 0) >>,
      << ModelSignal(30, 900, 0), ModelSignal(30, 900, 1) >> }

ObserverDecide ==
    /\ Len(fallback_buffer) < MaxBuffer
    /\ \E s \in ObserverBatches, t \in Times :
        /\ makeDecision(s, t)
        /\ LET r == makeDecisionResult(s, t, twin.config, twin.fallback_buffer)
           IN  twin' = [twin EXCEPT !.decision = r.d, !.fallback_buffer = r.buf]
    /\ UNCHANGED << audit_vars, history_vars, call, threads, ext_vars >>

\* metrics.observeDecision(decision), as in the integration example
ObserverObserve ==
    /\ Len(observed) < MaxObserve
    /\ observeDecision(decision)
    /\ decision' = afterObserve(decision)
    /\ observed' = Append(observed, decision)
    /\ UNCHANGED << config, fallback_buffer, fault, audit_trail, next_decision_id,
                    last_hash, log_open, log_fail, file_rows, history_vars, aux_vars,
                    report >>

\* the first record of the ledger
ObserverLog ==
    /\ audit_trail = <<>>
    /\ logDecision(decision, "DEMO", "example_strategy", "", TRUE)
    /\ log_calls' = log_calls + 1
    /\ UNCHANGED << engine_vars, accepted, tampered, aux_vars, ext_vars >>

NextObserver ==
    \/ ObserverDecide
    \/ ObserverObserve
    \/ ObserverLog
    \/ CollectorSnapshot
    \/ CollectorHealthy
    \/ CollectorReset

SpecObserver == InitMetrics /\ [][NextObserver]_vars

\* ------------------------------------------------------------------------
\* The ledger and the collector under their reading calls: reports and
\* integrity checks between appends, snapshots between observations
\* ------------------------------------------------------------------------
ReadOnlyLog ==
    /\ log_calls < MaxLog
    /\ \E t \in ReportTimes :
          logDecision(ForcedFallback(t), "DEMO", "example_strategy", "", TRUE)
    /\ log_calls' = log_calls + 1
    /\ report' = <<>>
    /\ UNCHANGED << engine_vars, accepted, tampered, aux_vars, metrics, observed >>

ReadOnlyReport ==
    /\ \E output_ok \in BOOLEAN, end_ns \in PeriodEnds : generateReport(output_ok, 0, end_ns)
    /\ UNCHANGED << engine_vars, history_vars, aux_vars, metrics, observed >>

ReadOnlyObserve ==
    /\ Len(observed) < MaxObserve
    /\ \E d \in { ForcedFallback(0), ForcedFallback(1) } :
        /\ observeDecision(d)
        /\ observed' = Append(observed, d)
    /\ UNCHANGED << engine_vars, audit_trail, next_decision_id, last_hash, log_open,
                    log_fail, file_rows, history_vars, aux_vars, report >>

NextReadOnly ==
    \/ ReadOnlyLog
    \/ ReadOnlyReport
    \/ ReportVerify
    \/ ReadOnlyObserve
    \/ CollectorSnapshot
    \/ CollectorReset

SpecReadOnly == InitMetrics /\ [][NextReadOnly]_vars

\* ------------------------------------------------------------------------
\* Threads that call one shared collector.  Every call takes the mutex on
\* entry and holds it to its return; threads.pc is the call a thread is
\* in, threads.arg the Decision it passed.  The body of observeDecision
\* reads the members (threads.local is what it read) and writes them back
\* updated.
\* ------------------------------------------------------------------------
ThreadDecisions ==
    { ForcedFallback(0), ForcedFallback(1),
      makeDecisionResult(<< ModelSignal(30, 900, 0), ModelSignal(30, 900, 1) >>,
                         1, DefaultConfig, <<>>).d }

CollectorCalls == { "observeDecision", "getSnapshot", "isHealthy", "reset", "getSampleCount" }

\* std::lock_guard<std::mutex> lock(mtx) at the top of each call
CollectorLock(t) ==
    /\ threads.pc[t] = "idle"
    /\ mutexFree(metrics)
    /\ \E op \in CollectorCalls :
        \E d \in IF op = "observeDecision" THEN ThreadDecisions ELSE { DefaultDecision } :
            /\ op = "observeDecision" => Len(observed) < MaxObserve
            /\ threads' = [threads EXCEPT !.pc[t] = op, !.arg[t] = d]
    /\ metrics' = [metrics EXCEPT !.mtx = t]
    /\ UNCHANGED << engine_vars, audit_vars, history_vars, call, twin, report, observed >>

CollectorRead(t) ==
    /\ threads.pc[t] = "observeDecision"
    /\ threads' = [threads EXCEPT !.pc[t] = "write", !.local[t] = metrics]
    /\ UNCHANGED << engine_vars, audit_vars, history_vars, call, twin, ext_vars >>

\* the members are written, the guard releases the mutex, the call returns
CollectorWrite(t) ==
    /\ threads.pc[t] = "write"
    /\ metrics' = [observeDecisionResult(threads.local[t], threads.arg[t])
                      EXCEPT !.mtx = 0]
    /\ observed' = Append(observed, threads.arg[t])
    /\ returned' = [op |-> "observeDecision", value |-> "void"]
    /\ threads' = [threads EXCEPT !.pc[t] = "idle",
                                  !.arg[t] = DefaultDecision,
                                  !.local[t] = MetricsCollector]
    /\ UNCHANGED << engine_vars, audit_trail, next_decision_id, last_hash, log_open,
                    log_fail, file_rows, history_vars, call, twin, report >>

\* the body and the return of the four other calls
CollectorReturn(t) ==
    /\ threads.pc[t] \in CollectorCalls \ { "observeDecision" }
    /\ LET op == threads.pc[t]
       IN  /\ returned' =
                [ op |-> op,
                  value |-> IF op = "getSnapshot" THEN getSnapshotResult(metrics)
                            ELSE IF op = "isHealthy" THEN isHealthyResult(metrics, 100)
                            ELSE IF op = "getSampleCount" THEN getSampleCountResult(metrics)
                            ELSE "void" ]
           /\ metrics' = [ (IF op = "reset" THEN resetResult(metrics) ELSE metrics)
                              EXCEPT !.mtx = 0 ]
           /\ observed' = IF op = "reset" THEN <<>> ELSE observed
    /\ threads' = [threads EXCEPT !.pc[t] = "idle"]
    /\ UNCHANGED << engine_vars, audit_trail, next_decision_id, last_hash, log_open,
                    log_fail, file_rows, history_vars, call, twin, report >>

NextCollectorThreads ==
    \E t \in Threads :
        CollectorLock(t) \/ CollectorRead(t) \/ CollectorWrite(t) \/ CollectorReturn(t)

SpecCollectorThreads == InitMetrics /\ [][NextCollectorThreads]_vars

\* ------------------------------------------------------------------------
\* Threads that call logDecision on one shared AuditLogger.  The logger
\* holds no lock, so the statements of the calls interleave:
\* next_decision_id++ (a load and a store), record.prev_hash = last_hash,
\* last_hash = record.hash and the push_back.  threads.id and threads.prev
\* are the decision_id and the prev_hash a thread has put in its record.
\* ------------------------------------------------------------------------
\* record.decision_id = next_decision_id++ : the load
LogLoadId(t) ==
    /\ threads.pc[t] = "idle"
    /\ log_calls < MaxLog
    /\ \E now \in Times :
          threads' = [threads EXCEPT !.pc[t] = "id", !.arg[t] = ForcedFallback(now),
                                     !.id[t] = next_decision_id]
    /\ log_calls' = log_calls + 1
    /\ UNCHANGED << engine_vars, audit_vars, accepted, tampered, call, twin, ext_vars >>

\* next_decision_id++ : the store
LogStoreId(t) ==
    /\ threads.pc[t] = "id"
    /\ next_decision_id' = threads.id[t] + 1
    /\ threads' = [threads EXCEPT !.pc[t] = "link"]
    /\ UNCHANGED << engine_vars, audit_trail, last_hash, log_open, log_fail, file_rows,
                    returned, history_vars, call, twin, ext_vars >>

\* record.prev_hash = last_hash
LogLink(t) ==
    /\ threads.pc[t] = "link"
    /\ threads' = [threads EXCEPT !.pc[t] = "advance", !.prev[t] = last_hash]
    /\ UNCHANGED << engine_vars, audit_vars, history_vars, call, twin, ext_vars >>

\* the record of thread t: buildRecord on the id and the hash t has read
ThreadRecord(t) ==
    buildRecord(threads.arg[t], threads.id[t], threads.prev[t],
                "DEMO", "example_strategy", "")

\* record.hash = computeHash(record); last_hash = record.hash
LogAdvance(t) ==
    /\ threads.pc[t] = "advance"
    /\ last_hash' = advanceLastHash(ThreadRecord(t))
    /\ threads' = [threads EXCEPT !.pc[t] = "append"]
    /\ UNCHANGED << engine_vars, audit_trail, next_decision_id, log_open, log_fail,
                    file_rows, returned, history_vars, call, twin, ext_vars >>

\* audit_trail.push_back(record); the file is not open; the call returns
LogAppend(t) ==
    /\ threads.pc[t] = "append"
    /\ audit_trail' = pushBack(audit_trail, ThreadRecord(t))
    /\ returned' = [op |-> "logDecision", value |-> "void"]
    /\ threads' = [threads EXCEPT !.pc[t] = "idle", !.arg[t] = DefaultDecision,
                                  !.id[t] = 0, !.prev[t] = ""]
    /\ UNCHANGED << engine_vars, next_decision_id, last_hash, log_open, log_fail,
                    file_rows, history_vars, call, twin, ext_vars >>

NextLogThreads ==
    \E t \in Threads :
        LogLoadId(t) \/ LogStoreId(t) \/ LogLink(t) \/ LogAdvance(t) \/ LogAppend(t)

SpecLogThreads == InitAudit /\ [][NextLogThreads]_vars

\* ------------------------------------------------------------------------
\* Properties
\* ------------------------------------------------------------------------
LastN(s, n) == SubSeq(s, Len(s) - n + 1, Len(s))

IsSuffix(s, t) == Len(s) <= Len(t) /\ s = LastN(t, Len(s))

\* C1: in every reachable engine state makeDecision returns a Decision with
\* one of the five statuses; no call reads out of bounds or fails to return
C1_AlwaysReturnsDecision ==
    /\ fault = FALSE
    /\ decision.status \in DecisionStatus

\* a call whose signals were all dropped, under a configuration whose
\* model-count check (min_models_required <= 0) would let an empty set through
C1_Witness ==
    /\ config.min_models_required <= 0
    /\ decision.status = "REJECTED_LOW_CONFIDENCE"
    /\ decision.timestamp_ns > 0
    /\ fault = FALSE

\* C2: once the stored final_value of a record was changed without
\* recomputing any hash, verifyIntegrity returns false
C2_TamperDetected == tampered => ~verifyIntegrity(audit_trail)

\* C3: the first record's prev_hash is the genesis sentinel and every later
\* record's prev_hash is the hash of the record before it
C3_HashChain ==
    \A i \in 1 .. Len(audit_trail) :
        audit_trail[i].prev_hash =
            IF i = 1 THEN GenesisHash ELSE audit_trail[i - 1].hash

C3_Witness ==
    /\ Len(audit_trail) = MaxLog
    /\ audit_trail[1].prev_hash = GenesisHash
    /\ audit_trail[2].prev_hash = audit_trail[1].hash
    /\ audit_trail[2].hash # audit_trail[1].hash

\* C4: verifyIntegrity returns true on the empty trail and after any number
\* of logDecision calls, whatever the Decisions logged
C4_VerifyIntegrityHolds == verifyIntegrity(audit_trail)

C4_Witness ==
    /\ Len(audit_trail) = MaxLog
    /\ \E i, j \in 1 .. Len(audit_trail) :
        /\ audit_trail[i].status = "FALLBACK_ACTIVATED"
        /\ audit_trail[j].status = "DECISION_VALID"
    /\ verifyIntegrity(audit_trail)

\* C5: the k-th logDecision call produces the record with decision_id k, and
\* the counter is one past the number of calls whatever else was called
C5_DecisionIds ==
    /\ next_decision_id = log_calls + 1
    /\ \A k \in 1 .. Len(audit_trail) : audit_trail[k].decision_id = k

\* three records logged, after a Valid decision was followed by an engine
\* reset and the log file was opened and closed again
C5_Witness ==
    /\ log_calls = MaxLog
    /\ audit_trail[MaxLog].decision_id = MaxLog
    /\ \E i \in 1 .. Len(audit_trail) : audit_trail[i].status = "DECISION_VALID"
    /\ fallback_buffer = <<>>
    /\ returned.op = "close"
    /\ file_rows # <<>>

\* C6: every step either leaves the trail alone or is a logDecision call that
\* adds one record at the end and keeps the earlier records as they were; the
\* trail is as long as the number of logDecision calls
C6_AppendOnly ==
    [][ /\ Len(audit_trail') = log_calls'
        /\ \/ audit_trail' = audit_trail /\ log_calls' = log_calls
           \/ /\ log_calls' = log_calls + 1
              /\ Len(audit_trail') = Len(audit_trail) + 1
              /\ SubSeq(audit_trail', 1, Len(audit_trail)) = audit_trail ]_vars

C6_Witness ==
    /\ log_calls = MaxLog
    /\ Len(audit_trail) = MaxLog
    /\ audit_trail[1].status # audit_trail[MaxLog].status

\* C7: a logDecision call whose record did not reach the backing file,
\* because the file could not be opened or written (the stream is in its
\* error state), returns a failure outcome to its caller
C7_PersistenceFailureSurfaced ==
    ( /\ returned.op = "logDecision"
      /\ log_fail
      /\ audit_trail # <<>>
      /\ \A r \in 1 .. Len(file_rows) :
            file_rows[r] # audit_trail[Len(audit_trail)].decision_id )
    => returned.value = "failure"

\* C8: the fallback buffer never holds more values than the configured
\* fallback_window_size
C8_BufferWithinWindow == Len(fallback_buffer) <= config.fallback_window_size

\* C9: with a fixed window W >= 1, after k Valid decisions the buffer holds
\* the final_values of the most recent min(k, W) of them, in acceptance
\* order; window 3 and the values 0.1, 0.2, 0.3, 0.4 leave 0.2, 0.3, 0.4
\* with mean 0.3
C9_Fifo ==
    /\ config.fallback_window_size >= 1
       => fallback_buffer =
            LastN(accepted, Min(Len(accepted), config.fallback_window_size))
    /\ LET c3 == [DefaultConfig EXCEPT !.fallback_window_size = 3]
           b1 == updateFallbackBuffer(<<>>, c3, 100)
           b2 == updateFallbackBuffer(b1, c3, 200)
           b3 == updateFallbackBuffer(b2, c3, 300)
           b4 == updateFallbackBuffer(b3, c3, 400)
       IN  b4 = <<200, 300, 400>> /\ calculateFallbackValue(b4) = 300

\* more Valid decisions than the window holds, the evicted value differing
\* from the ones kept
C9_Witness ==
    /\ config.fallback_window_size >= 1
    /\ Len(accepted) > config.fallback_window_size
    /\ Len(fallback_buffer) = config.fallback_window_size
    /\ accepted[Len(accepted) - config.fallback_window_size] # fallback_buffer[1]
    /\ \E i \in 1 .. Len(fallback_buffer) : fallback_buffer[i] # fallback_buffer[1]

\* C10: the buffer changes only by reset or by a makeDecision call that
\* returns Valid, which appends the returned final_value (and evicts from the
\* front); a call that returns another status leaves the buffer as it was
C10_BufferFrame ==
    [][ /\ (fallback_buffer' # fallback_buffer /\ fallback_buffer' # <<>>)
           => /\ decision'.status = "DECISION_VALID"
              /\ config' = config
              /\ fallback_buffer'[Len(fallback_buffer')] = decision'.final_value
              /\ IsSuffix(fallback_buffer',
                          Append(fallback_buffer, decision'.final_value))
        /\ (fallback_buffer' = <<>> /\ fallback_buffer # <<>>)
           => \/ decision' = decision /\ config' = config
              \/ /\ decision'.status = "DECISION_VALID"
                 /\ config.fallback_window_size = 0 /\ config' = config
        /\ (decision' # decision /\ decision'.status = "DECISION_VALID")
           => /\ IsSuffix(fallback_buffer',
                          Append(fallback_buffer, decision'.final_value))
              /\ config.fallback_window_size # 0 => fallback_buffer' # <<>>
              /\ Len(fallback_buffer') >= Min(Len(fallback_buffer) + 1,
                                              config.fallback_window_size)
        /\ (decision' # decision /\ decision'.status # "DECISION_VALID")
           => fallback_buffer' = fallback_buffer
        /\ config' # config => fallback_buffer' = fallback_buffer ]_vars

C10_Witness ==
    /\ decision.status = "DECISION_VALID"
    /\ Len(fallback_buffer) >= 2
    /\ fallback_buffer[Len(fallback_buffer)] = decision.final_value
    /\ fallback_buffer[1] # decision.final_value

\* the directional fallback of a buffer: +scale when the buffer is empty or
\* its mean is >= 0, -scale when its mean is < 0.  The mean of a non-empty
\* buffer has the sign of the sum of its values.
IsDirectionalFallback(v, buf, scale) ==
    /\ v \in { scale, -scale }
    /\ (buf = <<>> \/ FGe(SumSeq(buf), 0)) => v = scale
    /\ (buf # <<>> /\ FLt(SumSeq(buf), 0)) => v = -scale

\* C11: a Decision returned with fallback_used = true has final_value
\* +fallback_position_scale when the buffer is empty or its mean is >= 0
\* (a mean of exactly 0 included) and -fallback_position_scale when the mean
\* is < 0
C11_DirectionalFallback ==
    (call.op = "makeDecision" /\ decision.fallback_used)
    => IsDirectionalFallback(decision.final_value, call.buf,
                             config.fallback_position_scale)

\* a fallback taken over a buffer whose mean is below zero by a third of a
\* thousandth
C11_Witness ==
    /\ call.op = "makeDecision"
    /\ decision.fallback_used
    /\ call.buf = <<999, -1000, 0>>
    /\ decision.final_value = -config.fallback_position_scale

\* C12: makeDecision on an empty batch returns ErrorNoModels with
\* final_value 0, confidence 0 and fallback_used false; every field but the
\* timestamp has a fixed value, whatever the buffer holds, and the buffer is
\* left as it was
C12_EmptyBatch ==
    (call.op = "makeDecision" /\ call.model_signals = <<>>)
    => /\ decision.status = "ERROR_NO_MODELS"
       /\ decision.final_value = 0
       /\ decision.confidence = 0
       /\ decision.fallback_used = FALSE
       /\ decision.models_agreed = 0
       /\ decision.contributing_models = <<>>
       /\ decision.reasoning = "No model inputs"
       /\ fallback_buffer = call.buf

\* an empty batch given to an engine whose buffer has a negative mean
C12_Witness ==
    /\ call.op = "makeDecision"
    /\ call.model_signals = <<>>
    /\ call.buf = <<-999>>
    /\ decision.status = "ERROR_NO_MODELS"

\* C13: under a configuration with grace <= min, a non-empty batch whose
\* confidences are all below the grace threshold gives RejectedLowConfidence
\* with fallback_used, confidence 0.1, models_agreed 0 and the directional
\* fallback as final_value
C13_AllBelowGrace ==
    ( /\ call.op = "makeDecision"
      /\ call.model_signals # <<>>
      /\ config.grace_confidence_threshold <= config.min_confidence_threshold
      /\ \A i \in 1 .. Len(call.model_signals) :
            FLt(call.model_signals[i].confidence, config.grace_confidence_threshold) )
    => /\ decision.status = "REJECTED_LOW_CONFIDENCE"
       /\ decision.fallback_used = TRUE
       /\ decision.confidence = 100
       /\ decision.models_agreed = 0
       /\ IsDirectionalFallback(decision.final_value, call.buf,
                                config.fallback_position_scale)
       /\ fallback_buffer = call.buf

C13_Witness ==
    /\ call.op = "makeDecision"
    /\ Len(call.model_signals) = MaxBatch
    /\ \A i \in 1 .. Len(call.model_signals) :
          FLt(call.model_signals[i].confidence, config.grace_confidence_threshold)
    /\ config.min_models_required = 1
    /\ call.buf = <<987, -999>>
    /\ decision.status = "REJECTED_LOW_CONFIDENCE"
    /\ decision.final_value = -config.fallback_position_scale

\* the sign the evaluator gives a value: +1 for a value >= 0 (0 included)
SignPlus(x) == FGe(x, 0)

\* the values the median can be: the element at index floor(n/2) (counting
\* from 0) of the values in ascending order, for which fewer than
\* floor(n/2) + 1 values are smaller and at least that many are not larger.
\* With a NaN among the values no ascending order exists and any of the
\* values is allowed.
MedianCandidates(vals) ==
    LET n == Len(vals)
        k == (n \div 2) + 1
        below(v) == Cardinality({ i \in 1 .. n : vals[i] < v })
        upto(v) == Cardinality({ i \in 1 .. n : vals[i] <= v })
    IN  IF \E i \in 1 .. n : vals[i] = NaN
        THEN { vals[i] : i \in 1 .. n }
        ELSE { vals[i] : i \in { j \in 1 .. n :
                                   below(vals[j]) < k /\ k <= upto(vals[j]) } }

Agreeing(vals, med) ==
    { i \in 1 .. Len(vals) : SignPlus(vals[i]) = SignPlus(med) }

ValuesOf(signals) == [ i \in 1 .. Len(signals) |-> signals[i].value ]

\* C14: a non-empty validated set with fewer than min_models_required
\* signals gives RejectedNoConsensus with models_agreed 0, fallback_used and
\* confidence 0.2; when the set is large enough and the outcome is still
\* RejectedNoConsensus, models_agreed is the number of signals that have the
\* median's sign
C14_NoConsensus ==
    (call.op = "makeDecision" /\ call.valid # <<>>)
    => LET n == Len(call.valid)
           vals == ValuesOf(call.valid)
       IN  /\ n < config.min_models_required
              => /\ decision.status = "REJECTED_NO_CONSENSUS"
                 /\ decision.models_agreed = 0
                 /\ decision.fallback_used = TRUE
                 /\ decision.confidence = 200
           /\ (n >= config.min_models_required
               /\ decision.status = "REJECTED_NO_CONSENSUS")
              => /\ \E med \in MedianCandidates(vals) :
                        decision.models_agreed = Cardinality(Agreeing(vals, med))
                 /\ decision.fallback_used = TRUE
                 /\ decision.confidence = 200

\* two validated signals of the same sign under a configuration that
\* requires three: the agreement is never counted
C14_Witness ==
    /\ call.op = "makeDecision"
    /\ Len(call.valid) = 2
    /\ config.min_models_required = 3
    /\ call.valid[1].value = 50
    /\ call.valid[2].value = 50
    /\ decision.status = "REJECTED_NO_CONSENSUS"
    /\ decision.models_agreed = 0

\* the mean of the values at the indices in idx
MeanAt(vals, idx) ==
    FDivCount(SumSeq(SelectIdx(vals, [ i \in 1 .. Len(vals) |-> i \in idx ], 1)),
              Cardinality(idx))

C16_SafetyLayer ==
    (call.op = "applySafetyLayer")
    => LET sigs == call.model_signals
           inGrace == [ i \in 1 .. Len(sigs) |->
                          FGe(sigs[i].confidence, config.grace_confidence_threshold) ]
           passed == [ i \in 1 .. Len(sigs) |->
                         IF FGe(sigs[i].confidence, config.min_confidence_threshold)
                         THEN sigs[i]
                         ELSE [sigs[i] EXCEPT !.confidence = GracePenalty(@)] ]
       IN  /\ call.valid = SelectIdx(passed, inGrace, 1)
           /\ fallback_buffer = call.buf
           /\ decision = DefaultDecision
           /\ fault = FALSE

\* the validated signals: a signal with confidence >= min unchanged, else
\* one with confidence >= grace with its confidence times 0.8, in input order
Validated(sigs, cfg) ==
    LET atMin(i) == FGe(sigs[i].confidence, cfg.min_confidence_threshold)
        atGrace(i) == FGe(sigs[i].confidence, cfg.grace_confidence_threshold)
    IN  SelectIdx([ i \in 1 .. Len(sigs) |->
                      IF atMin(i) THEN sigs[i]
                      ELSE [sigs[i] EXCEPT !.confidence = GracePenalty(@)] ],
                  [ i \in 1 .. Len(sigs) |-> atMin(i) \/ atGrace(i) ], 1)

\* C17: on a Valid decision contributing_models lists the model ids of all
\* validated signals in input order, confidence is the mean of their
\* confidences after the grace penalty, fallback_used is false and
\* models_agreed is the number of validated signals with the median's sign
C17_ValidDecision ==
    (call.op = "makeDecision" /\ decision.status = "DECISION_VALID")
    => LET v == Validated(call.model_signals, config)
           n == Len(v)
           vals == ValuesOf(v)
       IN  /\ decision.contributing_models = [ i \in 1 .. n |-> v[i].model_id ]
           /\ decision.confidence =
                  FDivCount(SumSeq([ i \in 1 .. n |-> v[i].confidence ]), n)
           /\ decision.fallback_used = FALSE
           /\ \E med \in MedianCandidates(vals) :
                  decision.models_agreed = Cardinality(Agreeing(vals, med))

\* a Valid decision from a grace-range signal and a full-confidence signal of
\* opposite sign: both are listed, one agrees, the confidence is the mean of
\* 0.24 and 0.9
C17_Witness ==
    /\ call.op = "makeDecision"
    /\ decision.status = "DECISION_VALID"
    /\ ValuesOf(call.model_signals) = << -40, 50 >>
    /\ call.model_signals[1].confidence = 300
    /\ call.model_signals[2].confidence = 900
    /\ decision.contributing_models = << 0, 1 >>
    /\ decision.models_agreed = 1
    /\ decision.confidence = 570

Orders(n) == { f \in [1 .. n -> 1 .. n] : \A i, j \in 1 .. n : f[i] = f[j] => i = j }

AllIdle == \A t \in Threads : threads.pc[t] = "idle"

\* C20: when threads call makeDecision on one engine, the outcome is that of
\* the calls made one after the other in some order: once all calls have
\* returned the buffer holds the most recent min(k, W) of the k accepted
\* final_values in that order, none is lost, and it is within the window
C20_CallsAtomic ==
    AllIdle
    => LET k == Len(accepted)
           w == config.fallback_window_size
       IN  /\ Len(fallback_buffer) <= w
           /\ \E f \in Orders(k) :
                 fallback_buffer = LastN([ i \in 1 .. k |-> accepted[f[i]] ], Min(k, w))

\* C29: every Decision makeDecision returns has fallback_used set exactly
\* when its status is REJECTED_LOW_CONFIDENCE or REJECTED_NO_CONSENSUS, and
\* a non-empty contributing_models exactly when its status is DECISION_VALID
C29_FlagsMatchStatus ==
    call.op = "makeDecision" =>
        /\ decision.fallback_used
               <=> decision.status \in { "REJECTED_LOW_CONFIDENCE", "REJECTED_NO_CONSENSUS" }
        /\ decision.contributing_models # <<>> <=> decision.status = "DECISION_VALID"

C29_Witness ==
    /\ call.op = "makeDecision"
    /\ decision.status = "DECISION_VALID"
    /\ Len(decision.contributing_models) = 2
    /\ ~decision.fallback_used

\* C30: the active configuration of the engine has
\* grace_confidence_threshold <= min_confidence_threshold in every state
\* the constructor and setConfig lead to
C30_GraceAtMostMin ==
    config.grace_confidence_threshold <= config.min_confidence_threshold

\* the number of stored records that satisfy P
CountRecords(P(_)) == Cardinality({ i \in 1 .. Len(audit_trail) : P(audit_trail[i]) })

InPeriod(r, p) == p.start_ns <= r.timestamp_ns /\ r.timestamp_ns <= p.end_ns

\* C22: a report over [start, end] counts exactly the records with
\* start <= timestamp_ns <= end, both ends included: all of them, those
\* with status DECISION_VALID, those with fallback_used, those rejected
\* for confidence and those rejected for consensus; its integrity line is
\* the result of verifyIntegrity
C22_ReportCounts ==
    \A k \in 1 .. Len(report) :
        LET p == report[k]
        IN  /\ p.total = CountRecords(LAMBDA r : InPeriod(r, p))
            /\ p.valid = CountRecords(LAMBDA r :
                             InPeriod(r, p) /\ r.status = "DECISION_VALID")
            /\ p.fallback = CountRecords(LAMBDA r : InPeriod(r, p) /\ r.fallback_used)
            /\ p.rejected_confidence = CountRecords(LAMBDA r :
                             InPeriod(r, p) /\ r.status = "REJECTED_LOW_CONFIDENCE")
            /\ p.rejected_consensus = CountRecords(LAMBDA r :
                             InPeriod(r, p) /\ r.status = "REJECTED_NO_CONSENSUS")
            /\ p.integrity = "VERIFIED" <=> verifyIntegrity(audit_trail)
            /\ p.integrity = "COMPROMISED" <=> ~verifyIntegrity(audit_trail)

\* a record stamped 1 and a record stamped 2, and a report over [2, 3] that
\* counts the one that lies on the start of the period
C22_Witness ==
    /\ Len(audit_trail) = 2
    /\ audit_trail[1].timestamp_ns = 1
    /\ audit_trail[2].timestamp_ns = 2
    /\ audit_trail[2].status = "FALLBACK_ACTIVATED"
    /\ report # <<>>
    /\ report[1].start_ns = 2 /\ report[1].end_ns = 3
    /\ report[1].total = 1 /\ report[1].fallback = 1 /\ report[1].valid = 0
    /\ report[1].integrity = "COMPROMISED"

ReportCounters(p) ==
    << p.total, p.valid, p.fallback, p.rejected_confidence, p.rejected_consensus >>

PeriodWithin(p, q) == q.start_ns <= p.start_ns /\ p.end_ns <= q.end_ns

CoversTrail(p) == \A i \in 1 .. Len(audit_trail) : InPeriod(audit_trail[i], p)

\* C23: of two reports over the same ledger, the one whose period lies
\* within the other's has no counter larger than the other's, and the same
\* counters when its period holds the timestamp of every record
C23_ReportMonotone ==
    \A j, k \in 1 .. Len(report) :
        PeriodWithin(report[j], report[k]) =>
            /\ \A c \in 1 .. 5 : ReportCounters(report[j])[c] <= ReportCounters(report[k])[c]
            /\ CoversTrail(report[j]) =>
                   ReportCounters(report[j]) = ReportCounters(report[k])

\* a report over [0, 3] and then one over [0, 1] that leaves a record out
C23_Witness ==
    /\ Len(report) = 2
    /\ report[2].start_ns = 0 /\ report[2].end_ns = 3
    /\ report[1].start_ns = 0 /\ report[1].end_ns = 1
    /\ report[2].total = 2
    /\ report[1].total = 1

\* the Decisions the claims call malformed
Malformed(d) ==
    \/ d.confidence \in { NaN, Inf, -Inf }
    \/ d.confidence < 0
    \/ d.confidence > 1000
    \/ d.timestamp_ns = 0
    \/ d.models_agreed < 0

\* C26: observeDecision returns on every Decision, and a malformed one
\* (confidence NaN, infinite or outside [0, 1], timestamp_ns 0, or
\* models_agreed below 0) adds exactly 1 to invalid_inputs and changes no
\* other counter, statistic, histogram entry or sample
C26_MalformedCounted ==
    [][ Len(observed') = Len(observed) + 1 =>
          /\ returned'.op = "observeDecision"
          /\ Malformed(observed'[Len(observed')]) =>
                metrics' = [metrics EXCEPT !.snapshot.invalid_inputs = @ + 1]
      ]_vars

\* a well-formed Decision was counted, then a malformed one
C26_Witness ==
    /\ Len(observed) = 2
    /\ ~Malformed(observed[1])
    /\ Malformed(observed[2])
    /\ metrics.snapshot.invalid_inputs = 1
    /\ metrics.snapshot.total_decisions = 1
    /\ Len(metrics.confidence_samples) = 1

\* the confidences the collector sampled since the last reset, oldest first
Sampled == [ i \in 1 .. Len(observed) |-> observed[i].confidence ]

\* the sample buffer read from the oldest slot to the newest
RingOrder ==
    LET n == Len(metrics.confidence_samples)
        w == metrics.sample_write_index
    IN  SubSeq(metrics.confidence_samples, w + 1, n)
            \o SubSeq(metrics.confidence_samples, 1, w)

\* C28: the sample buffer never holds more than MAX_SAMPLES entries and
\* getSampleCount never returns more; once the buffer is full each new
\* sample takes the place of the oldest one, so the buffer holds the last
\* MAX_SAMPLES samples; the keys of the histogram lie in 0 .. 999
C28_BoundedMemory ==
    /\ Len(metrics.confidence_samples) <= MAX_SAMPLES
    /\ returned.op = "getSampleCount" => returned.value <= MAX_SAMPLES
    /\ RingOrder = LastN(Sampled, Min(Len(Sampled), MAX_SAMPLES))
    /\ DOMAIN metrics.snapshot.models_agreed_histogram \subseteq 0 .. 999

\* the buffer was filled, two more samples went in and getSampleCount was
\* asked; a Decision with models_agreed = 1000 was among those observed
C28_Witness ==
    /\ Len(observed) = MAX_SAMPLES + 2
    /\ metrics.samples_buffer_full
    /\ metrics.sample_write_index = 2 % MAX_SAMPLES
    /\ \E i \in 1 .. Len(observed) : observed[i].models_agreed = 1000
    /\ Sampled[1] # Sampled[MAX_SAMPLES + 1]
    /\ returned.op = "getSampleCount"
    /\ returned.value = MAX_SAMPLES

\* a step in which a call on the collector returned
CollectorCalled ==
    /\ returned'.op \in { "observeDecision", "getSnapshot", "isHealthy", "reset" }
    /\ \/ returned.op # returned'.op
       \/ returned.value # returned'.value
       \/ metrics' # metrics
       \/ observed' # observed

\* C25: the collector has no influence on the decisions: no call of
\* observeDecision, getSnapshot, isHealthy or reset changes the Decision it
\* is passed, the configuration or the fallback buffer of the engine, or
\* the ledger, and the engine returns the Decisions an engine without a
\* collector returns for the same batches
C25_CollectorReadOnly ==
    /\ [](/\ decision = twin.decision
          /\ fallback_buffer = twin.fallback_buffer
          /\ config = twin.config)
    /\ [][ CollectorCalled =>
             UNCHANGED << decision, config, fallback_buffer, fault, twin, audit_trail,
                          next_decision_id, last_hash, log_open, log_fail, file_rows >>
       ]_vars

\* a valid and then a rejected Decision were observed, with a record in the
\* ledger and an accepted value in the fallback buffer
C25_Witness ==
    /\ Len(observed) = 2
    /\ observed[1].status = "DECISION_VALID"
    /\ observed[2].status = "REJECTED_LOW_CONFIDENCE"
    /\ metrics.snapshot.total_decisions = 2
    /\ returned.op = "getSnapshot"
    /\ Len(audit_trail) = 1
    /\ fallback_buffer # <<>>
    /\ decision = observed[2]

\* a step in which generateReport or verifyIntegrity returned
LedgerRead ==
    /\ returned'.op \in { "generateReport", "verifyIntegrity" }
    /\ returned.op # returned'.op \/ report' # report

\* C24: generateReport and verifyIntegrity leave the trail, the next
\* decision_id and last_hash as they were, and give the same result when
\* called again with the same arguments on the same ledger; getSnapshot
\* returns the same snapshot again when no observeDecision or reset came
\* in between
C24_ReadsAreIdempotent ==
    /\ [][ LedgerRead => UNCHANGED << audit_trail, next_decision_id, last_hash >> ]_vars
    /\ []( Len(report) = 2 /\ report[1].start_ns = report[2].start_ns
                           /\ report[1].end_ns = report[2].end_ns
              => report[1] = report[2] )
    /\ [][ returned.op = "verifyIntegrity" /\ returned'.op = "verifyIntegrity"
              => returned'.value = returned.value ]_vars
    /\ [][ returned'.op = "getSnapshot" =>
              /\ metrics' = metrics
              /\ returned.op = "getSnapshot" => returned'.value = returned.value ]_vars

\* two reports over [0, 3] written from a ledger of two records, and a
\* snapshot taken after an observation
C24_Witness ==
    /\ Len(audit_trail) = 2
    /\ next_decision_id = 3
    /\ Len(report) = 2
    /\ report[1] = report[2]
    /\ report[1].total = 2
    /\ returned.op = "getSnapshot"
    /\ returned.value.total_decisions = 1
    /\ returned.value.invalid_inputs = 1

\* the collector after the Decisions of s were observed one after the other
RECURSIVE Replay(_)
Replay(s) ==
    IF s = <<>> THEN MetricsCollector
    ELSE observeDecisionResult(Replay(SubSeq(s, 1, Len(s) - 1)), s[Len(s)])

\* C27: the calls on one collector exclude each other; no update is lost,
\* total_decisions + invalid_inputs is the number of observeDecision calls
\* that returned since the last reset; and a snapshot returned is the
\* snapshot after some prefix of the observeDecision calls in the order in
\* which they took the mutex
C27_CollectorSerialized ==
    /\ \A t1, t2 \in Threads :
          threads.pc[t1] # "idle" /\ threads.pc[t2] # "idle" => t1 = t2
    /\ metrics.snapshot.total_decisions + metrics.snapshot.invalid_inputs = Len(observed)
    /\ returned.op = "getSnapshot" =>
          \E k \in 0 .. Len(observed) :
              returned.value = Replay(SubSeq(observed, 1, k)).snapshot

\* one thread is inside observeDecision and holds the mutex while the
\* other, whose two Decisions were counted, is outside
C27_Witness ==
    /\ Len(observed) = 2
    /\ metrics.snapshot.total_decisions = 1
    /\ metrics.snapshot.invalid_inputs = 1
    /\ threads.pc[1] = "write"
    /\ threads.pc[2] = "idle"
    /\ metrics.mtx = 1

\* C21: logDecision calls made by several threads on one logger are
\* serialized: once they have returned, the records carry the decision_ids
\* 1 .. n, each once, the prev_hash of every record is the hash of the
\* record appended right before it (the genesis hash for the first), and
\* verifyIntegrity returns true
C21_AppendsSerialized ==
    AllIdle =>
        /\ \A i, j \in 1 .. Len(audit_trail) :
              audit_trail[i].decision_id = audit_trail[j].decision_id => i = j
        /\ { audit_trail[i].decision_id : i \in 1 .. Len(audit_trail) }
               = 1 .. Len(audit_trail)
        /\ \A i \in 1 .. Len(audit_trail) :
              audit_trail[i].prev_hash =
                  IF i = 1 THEN GenesisHash ELSE audit_trail[i - 1].hash
        /\ verifyIntegrity(audit_trail)

\* C31: a Valid decision has min_models_required <= models_agreed <= the
\* number of validated signals; with min_models_required >= 2 a batch of
\* which one signal passes the safety layer, or of which one validated
\* signal has the sign of the median, does not give a Valid decision
C31_ValidNeedsAgreement ==
    call.op = "makeDecision" =>
        LET v == Validated(call.model_signals, config)
            vals == ValuesOf(v)
        IN  /\ decision.status = "DECISION_VALID"
               => /\ config.min_models_required <= decision.models_agreed
                  /\ decision.models_agreed <= Len(v)
            /\ ( /\ config.min_models_required >= 2
                 /\ \/ Len(v) = 1
                    \/ \A med \in MedianCandidates(vals) :
                          Cardinality(Agreeing(vals, med)) = 1 )
               => decision.status # "DECISION_VALID"

\* two validated signals of opposite sign where half is agreement enough and
\* two models are required: the ratio passes, the count of one does not
C31_Witness ==
    /\ call.op = "makeDecision"
    /\ config.min_models_required = 2
    /\ config.sign_agreement_threshold = 500
    /\ ValuesOf(call.valid) = << -40, 50 >>
    /\ call.consensus.models_agreed = 1
    /\ decision.status = "REJECTED_NO_CONSENSUS"

\* the final_values of the Valid decisions the window of size w holds, k
\* decisions having been accepted since the last reset: the most recent
\* min(k, w)
HeldValues(w) == LastN(accepted, Min(Len(accepted), w))

Rejected(d) == d.status \in { "REJECTED_LOW_CONFIDENCE", "REJECTED_NO_CONSENSUS" }

HashBefore(trail, i) == IF i = 1 THEN "0000000000000000" ELSE trail[i - 1].hash

Broken(trail) == \E i \in 1 .. Len(trail) : trail[i].prev_hash # HashBefore(trail, i)

\* the step altered the field f of record i and nothing else of the trail
Altered(i, f) ==
    /\ i \in 1 .. Len(audit_trail)
    /\ Len(audit_trail') = Len(audit_trail)
    /\ audit_trail'[i][f] # audit_trail[i][f]
    /\ audit_trail' = [audit_trail EXCEPT ![i][f] = audit_trail'[i][f]]

\* C33: verifyIntegrity returns false iff some record's prev_hash differs
\* from the stored hash of the record before it (the genesis sentinel for the
\* first record); after the prev_hash of any record, or the stored hash of
\* any record but the last, is altered it returns false; it leaves the
\* trail and the logger as they were
C33_VerifyReportsBreaks ==
    [][ /\ (returned' # returned /\ returned'.op = "verifyIntegrity")
           => /\ returned'.value = "false" <=> Broken(audit_trail)
              /\ audit_trail' = audit_trail
              /\ last_hash' = last_hash
              /\ next_decision_id' = next_decision_id
              /\ file_rows' = file_rows
        /\ ( /\ ~Broken(audit_trail)
             /\ \/ \E i \in 1 .. Len(audit_trail) : Altered(i, "prev_hash")
                \/ \E i \in 1 .. Len(audit_trail) - 1 : Altered(i, "hash") )
           => ~verifyIntegrity(audit_trail') ]_vars

\* verifyIntegrity has returned false on a trail of which the stored hash of
\* the first record was altered and everything else is as logged
C33_Witness ==
    /\ returned = [op |-> "verifyIntegrity", value |-> "false"]
    /\ Len(audit_trail) = 2
    /\ audit_trail[1].hash = "overwritten"
    /\ audit_trail[1].prev_hash = "0000000000000000"
    /\ last_hash = audit_trail[2].hash

\* C34: after any sequence of logDecision calls every stored record's hash
\* is the digest of that record's own stored fields and prev_hash, and
\* last_hash is the hash of the last record of the trail, the genesis
\* sentinel while the trail is empty
C34_HashesMatchRecords ==
    /\ \A i \in 1 .. Len(audit_trail) :
          audit_trail[i].hash = computeHash(audit_trail[i])
    /\ last_hash = IF audit_trail = <<>> THEN "0000000000000000"
                   ELSE audit_trail[Len(audit_trail)].hash

\* two records logged, the second linked to the first and hashed with that
\* link
C34_Witness ==
    /\ Len(audit_trail) = 2
    /\ audit_trail[2].prev_hash = audit_trail[1].hash
    /\ audit_trail[2].prev_hash # "0000000000000000"
    /\ audit_trail[2].hash = computeHash(audit_trail[2])
    /\ audit_trail[2].hash # audit_trail[1].hash
    /\ last_hash = audit_trail[2].hash

Max(a, b) == IF a >= b THEN a ELSE b

\* C36: when the validated set has n >= max(1, min_models_required)
\* signals, the agreement count of checkConsensus satisfies
\* 2 * models_agreed >= n and models_agreed >= 1 (the median's sign is the
\* sign of a weak majority), and when as many values are negative as are
\* non-negative the non-negative ones are counted
C36_WeakMajority ==
    ( /\ call.op = "makeDecision"
      /\ Len(call.valid) >= Max(1, config.min_models_required) )
    => LET n == Len(call.valid)
           vals == ValuesOf(call.valid)
           nonneg == { i \in 1 .. n : vals[i] # NaN /\ vals[i] >= 0 }
           neg == { i \in 1 .. n : vals[i] # NaN /\ vals[i] < 0 }
           agreed == call.consensus.models_agreed
       IN  /\ 2 * agreed >= n
           /\ agreed >= 1
           /\ decision.models_agreed = agreed
           /\ (Cardinality(nonneg) = Cardinality(neg) /\ 2 * Cardinality(neg) = n)
              => /\ agreed = Cardinality(nonneg)
                 /\ decision.status = "DECISION_VALID" => decision.final_value >= 0

\* the fields of a Decision that the copies of the engine are compared in
Outcome(d) ==
    << d.status, d.final_value, d.confidence, d.models_agreed, d.fallback_used,
       d.contributing_models >>

\* C37 for one Decision returned for a batch of n signals
AgreedInRange(d, n) ==
    /\ 0 <= d.models_agreed
    /\ d.models_agreed <= n
    /\ d.status \in { "ERROR_NO_MODELS", "REJECTED_LOW_CONFIDENCE" }
       => d.models_agreed = 0 /\ d.contributing_models = <<>>

IsQuotient(q, a, b) == 2 * Abs(1000 * a - q * b) <= b

\* C39: after any sequence of observeDecision calls without overflow,
\* valid_decisions + rejected_confidence + rejected_consensus <=
\* total_decisions; rejected_confidence + rejected_consensus <=
\* fallback_activations <= total_decisions, with equality on the left when
\* no observed Decision has the status FALLBACK_ACTIVATED; and when
\* total_decisions > 0, fallback_rate is fallback_activations /
\* total_decisions and consensus_failure_rate is rejected_consensus /
\* total_decisions, both within [0, 1]
C39_CountersConsistent ==
    LET s == metrics.snapshot
        rejected == s.rejected_confidence + s.rejected_consensus
    IN  /\ s.valid_decisions + rejected <= s.total_decisions
        /\ rejected <= s.fallback_activations
        /\ s.fallback_activations <= s.total_decisions
        /\ (\A i \in 1 .. Len(observed) : observed[i].status # "FALLBACK_ACTIVATED")
           => rejected = s.fallback_activations
        /\ s.total_decisions > 0
           => /\ IsQuotient(s.fallback_rate, s.fallback_activations, s.total_decisions)
              /\ IsQuotient(s.consensus_failure_rate, s.rejected_consensus,
                            s.total_decisions)
              /\ 0 <= s.fallback_rate /\ s.fallback_rate <= 1000
              /\ 0 <= s.consensus_failure_rate /\ s.consensus_failure_rate <= 1000

\* a Valid, a no-consensus and a forced-fallback Decision were counted: two
\* fallback activations of three decisions, one consensus failure
C39_Witness ==
    /\ metrics.snapshot.total_decisions = 3
    /\ metrics.snapshot.valid_decisions = 1
    /\ metrics.snapshot.rejected_consensus = 1
    /\ metrics.snapshot.rejected_confidence = 0
    /\ metrics.snapshot.fallback_activations = 2
    /\ metrics.snapshot.fallback_rate = 667
    /\ metrics.snapshot.consensus_failure_rate = 333

Counters(c) ==
    << c.snapshot.total_decisions, c.snapshot.valid_decisions,
       c.snapshot.fallback_activations, c.snapshot.rejected_confidence,
       c.snapshot.rejected_consensus, c.snapshot.invalid_inputs,
       c.snapshot.models_agreed_histogram >>

\* C40: total_decisions never wraps around: once it holds the largest value
\* of its type, a further well-formed observeDecision leaves every counter
\* unchanged and sets overflow_detected; from then on the snapshot keeps
\* overflow_detected and isHealthy returns false for every threshold, until
\* reset is called
C40_NoWrapAround ==
    [][ /\ returned'.op # "reset"
           => /\ metrics'.snapshot.total_decisions >= metrics.snapshot.total_decisions
              /\ metrics.snapshot.overflow_detected => metrics'.snapshot.overflow_detected
        /\ ( /\ Len(observed') = Len(observed) + 1
             /\ metrics.snapshot.total_decisions = UINT64_MAX
             /\ ~Malformed(observed'[Len(observed')]) )
           => /\ Counters(metrics') = Counters(metrics)
              /\ metrics'.snapshot.overflow_detected
        /\ (returned'.op = "getSnapshot" /\ metrics.snapshot.overflow_detected)
           => returned'.value.overflow_detected
        /\ (returned'.op = "isHealthy" /\ metrics.snapshot.overflow_detected)
           => returned'.value = FALSE
      ]_vars

\* the counter at its limit was passed one more Valid decision and isHealthy
\* was asked: no fallback was ever counted, and the answer is false
C40_Witness ==
    /\ metrics.snapshot.total_decisions = UINT64_MAX
    /\ metrics.snapshot.valid_decisions = UINT64_MAX
    /\ metrics.snapshot.fallback_rate = 0
    /\ metrics.snapshot.overflow_detected
    /\ Len(observed) = 1
    /\ observed[1].status = "DECISION_VALID"
    /\ returned.op = "isHealthy"
    /\ returned.value = FALSE

====
